---- MODULE Spec2Model ----
(***************************************************************************)
(* Receipt parsing pipeline of the travel-expense backend                  *)
(* (backend/app/services/receipt_parsing.py, backend/app/services/ocr.py). *)
(*                                                                         *)
(* A Python str is a sequence of one-character strings.  A float that      *)
(* float() makes of a matched token is kept in hundredths (101.51 is       *)
(* 10151, 19.0 is 1900); parsing_confidence is a whole number.  None is    *)
(* <<>> and a set optional value v is <<v>>.  A dict is a function whose   *)
(* domain is the set of its keys.                                          *)
(***************************************************************************)
EXTENDS Integers, Sequences, FiniteSets, TLC

(***************************************************************************)
(* Bounds of the explored inputs.                                          *)
(***************************************************************************)
MaxFragments == 2

(***************************************************************************)
(* Characters and the str methods the code uses.                           *)
(***************************************************************************)
Digits == {"0", "1", "2", "3", "4", "5", "6", "7", "8", "9"}

AsciiUpper ==
  <<"A", "B", "C", "D", "E", "F", "G", "H", "I", "J", "K", "L", "M", "N", "O", "P", "Q", "R", "S",
    "T", "U", "V", "W", "X", "Y", "Z">>

AsciiLower ==
  <<"a", "b", "c", "d", "e", "f", "g", "h", "i", "j", "k", "l", "m", "n", "o", "p", "q", "r", "s",
    "t", "u", "v", "w", "x", "y", "z">>

(* Cased letters outside ASCII that occur in the receipts. *)
OtherUpper == <<"Ü", "Ä", "Ö", "É">>

OtherLower == <<"ü", "ä", "ö", "é">>

AsciiLowerSet == {AsciiLower[i] : i \in 1..Len(AsciiLower)}

(* str.isspace: the characters \s matches and str.strip removes. *)
Whitespace == {" ", "\n", "\t", "\r"}

None == <<>>

Some(v) == <<v>>

Max(S) == CHOOSE x \in S : \A y \in S : y <= x

Min(S) == CHOOSE x \in S : \A y \in S : x <= y

(* str.lower of one character. *)
LowerChar(c) ==
  IF \E i \in 1..Len(AsciiUpper) : AsciiUpper[i] = c
  THEN AsciiLower[CHOOSE i \in 1..Len(AsciiUpper) : AsciiUpper[i] = c]
  ELSE IF \E i \in 1..Len(OtherUpper) : OtherUpper[i] = c
       THEN OtherLower[CHOOSE i \in 1..Len(OtherUpper) : OtherUpper[i] = c]
       ELSE c

(* str.upper of one character. *)
UpperChar(c) ==
  IF \E i \in 1..Len(AsciiLower) : AsciiLower[i] = c
  THEN AsciiUpper[CHOOSE i \in 1..Len(AsciiLower) : AsciiLower[i] = c]
  ELSE IF \E i \in 1..Len(OtherLower) : OtherLower[i] = c
       THEN OtherUpper[CHOOSE i \in 1..Len(OtherLower) : OtherLower[i] = c]
       ELSE c

Lower(s) == [i \in 1..Len(s) |-> LowerChar(s[i])]

Upper(s) == [i \in 1..Len(s) |-> UpperChar(s[i])]

(* s[i-1 : j] of Python, with 1-based inclusive bounds i..j. *)
Slice(s, i, j) == IF j < i THEN <<>> ELSE SubSeq(s, i, j)

(* The literal lit stands in s at position i (case-sensitive). *)
MatchAt(s, i, lit) ==
  /\ i >= 1
  /\ i + Len(lit) - 1 <= Len(s)
  /\ \A k \in 1..Len(lit) : s[i + k - 1] = lit[k]

(* The literal lit stands in s at position i, ignoring case (re.IGNORECASE). *)
MatchAtIgnoreCase(s, i, lit) ==
  /\ i >= 1
  /\ i + Len(lit) - 1 <= Len(s)
  /\ \A k \in 1..Len(lit) : LowerChar(s[i + k - 1]) = LowerChar(lit[k])

(* lit in s *)
Contains(s, lit) == \E i \in 1..(Len(s) - Len(lit) + 1) : MatchAt(s, i, lit)

(* s.startswith(lit) *)
StartsWith(s, lit) == MatchAt(s, 1, lit)

(* The first position at or after i whose character is not in Class *)
(* (Len(s) + 1 when the run reaches the end): a greedy Class* from i. *)
SkipClass(s, i, Class) ==
  IF i > Len(s) THEN i
  ELSE
  Min({j \in i..(Len(s) + 1) :
         /\ \A k \in i..(j - 1) : s[k] \in Class
         /\ (j = Len(s) + 1 \/ s[j] \notin Class)})

(* s.replace(a, b) for single characters a and b. *)
ReplaceChar(s, a, b) == [i \in 1..Len(s) |-> IF s[i] = a THEN b ELSE s[i]]

(* s.strip() *)
Strip(s) ==
  LET keep == {i \in 1..Len(s) : s[i] \notin Whitespace}
  IN IF keep = {} THEN <<>> ELSE SubSeq(s, Min(keep), Max(keep))

(* s.split(sep) for a single character sep: the list of the segments. *)
RECURSIVE SplitFrom(_, _, _)
SplitFrom(s, i, sep) ==
  LET cuts == {j \in i..Len(s) : s[j] = sep}
  IN IF cuts = {} THEN <<Slice(s, i, Len(s))>>
     ELSE <<Slice(s, i, Min(cuts) - 1)>> \o SplitFrom(s, Min(cuts) + 1, sep)

Split(s, sep) == SplitFrom(s, 1, sep)

(* int(s) for a string of ASCII digits. *)
DigitValue(c) == CHOOSE n \in 0..9 : <<"0", "1", "2", "3", "4", "5", "6", "7", "8", "9">>[n + 1] = c

RECURSIVE ToInt(_)
ToInt(s) == IF s = <<>> THEN 0 ELSE 10 * ToInt(SubSeq(s, 1, Len(s) - 1)) + DigitValue(s[Len(s)])

(* "".join(seqs) *)
RECURSIVE Join(_)
Join(seqs) == IF seqs = <<>> THEN <<>> ELSE Head(seqs) \o Join(Tail(seqs))

(***************************************************************************)
(* Outcomes of a call: a returned value or a raised exception.             *)
(***************************************************************************)
Return(v) == [kind |-> "return", value |-> v]

Raise(type, msg) == [kind |-> "raise", type |-> type, msg |-> msg]

Returned(o) == o.kind = "return"

Raised(o) == o.kind = "raise"

(* float(s): s is a string of digits and dots.  Python accepts it when it *)
(* has exactly one dot and a digit; the value is kept in hundredths, read *)
(* from the integer part and the first two decimals.                      *)
FloatValid(s) ==
  /\ Cardinality({i \in 1..Len(s) : s[i] = "."}) <= 1
  /\ \E i \in 1..Len(s) : s[i] \in Digits
  /\ \A i \in 1..Len(s) : s[i] \in Digits \cup {"."}

FloatHundredths(s) ==
  LET dots == {i \in 1..Len(s) : s[i] = "."}
      dot == IF dots = {} THEN Len(s) + 1 ELSE Min(dots)
      frac == Slice(s, dot + 1, Len(s))
      frac2 == IF Len(frac) >= 2 THEN SubSeq(frac, 1, 2)
               ELSE IF Len(frac) = 1 THEN frac \o <<"0">> ELSE <<"0", "0">>
  IN 100 * ToInt(Slice(s, 1, dot - 1)) + ToInt(frac2)

FloatErrorPrefix ==
  <<"c", "o", "u", "l", "d", " ", "n", "o", "t", " ", "c", "o", "n", "v", "e", "r", "t", " ", "s", "t", "r", "i", "n", "g", " ", "t", "o", " ", "f", "l", "o", "a", "t", ":", " ", "'">>

(* float(s) as an outcome: the value in hundredths, or ValueError. *)
Float(s) ==
  IF FloatValid(s) THEN Return(FloatHundredths(s))
  ELSE Raise("ValueError", FloatErrorPrefix \o s \o <<"'">>)

(***************************************************************************)
(* The regular expressions of receipt_parsing.py.  Each search returns     *)
(* None or the tuple of the groups of the leftmost match, as re.search.    *)
(***************************************************************************)
ColonSpace == {":"} \cup Whitespace

DotSpace == {"."} \cup Whitespace

DotSpaceHash == {".", "#"} \cup Whitespace

DigitComma == Digits \cup {","}

DotComma == {".", ","}

DotSlash == {".", "/"}

(* [0-9,]+[.,][0-9]{2} anchored at p: the last position of the greedy *)
(* match (the longest [0-9,]+ that leaves a separator and two digits), *)
(* or 0 when there is no match at p.                                    *)
PriceEnd(s, p) ==
  LET K == {k \in (p + 1)..(Len(s) - 2) :
              /\ \A j \in p..(k - 1) : s[j] \in DigitComma
              /\ s[k] \in DotComma
              /\ s[k + 1] \in Digits
              /\ s[k + 2] \in Digits}
  IN IF p < 1 \/ K = {} THEN 0 ELSE Max(K) + 2

amount_labels == <<<<"g", "e", "s", "a", "m", "t">>, <<"t", "o", "t", "a", "l">>, <<"s", "u", "m", "m", "e">>>>

(* (?:gesamt|total|summe)[:\s]*([0-9,]+[.,][0-9]{2}) anchored at i. *)
AmountMatchAt(s, i) ==
  LET alts == {a \in 1..Len(amount_labels) :
                 /\ MatchAt(s, i, amount_labels[a])
                 /\ PriceEnd(s, SkipClass(s, i + Len(amount_labels[a]), ColonSpace)) # 0}
  IN IF alts = {} THEN None
     ELSE LET p == SkipClass(s, i + Len(amount_labels[Min(alts)]), ColonSpace)
          IN Some(SubSeq(s, p, PriceEnd(s, p)))

AmountSearch(s) ==
  LET hits == {i \in 1..Len(s) : AmountMatchAt(s, i) # None}
  IN IF hits = {} THEN None ELSE AmountMatchAt(s, Min(hits))

mwst == <<"m", "w", "s", "t">>

(* mwst[.\s]*([0-9]+)%[:\s]*([0-9,]+[.,][0-9]{2}) anchored at i: the two *)
(* groups, or None.                                                        *)
VatMatchAt(s, i) ==
  IF ~MatchAt(s, i, mwst) THEN None
  ELSE LET r == SkipClass(s, i + Len(mwst), DotSpace)
           e == SkipClass(s, r, Digits)
           p == SkipClass(s, e + 1, ColonSpace)
       IN IF e > r /\ e <= Len(s) /\ s[e] = "%" /\ PriceEnd(s, p) # 0
          THEN <<SubSeq(s, r, e - 1), SubSeq(s, p, PriceEnd(s, p))>>
          ELSE None

VatSearch(s) ==
  LET hits == {i \in 1..Len(s) : VatMatchAt(s, i) # None}
  IN IF hits = {} THEN None ELSE VatMatchAt(s, Min(hits))

datum == <<"d", "a", "t", "u", "m">>

(* [0-9]{1,2}[./][0-9]{1,2}[./][0-9]{2,4} anchored at p: the last position *)
(* of the greedy match, or 0.                                              *)
DateTokenEnd(s, p) ==
  LET d == SkipClass(s, p, Digits)
      m == SkipClass(s, d + 1, Digits)
      y == SkipClass(s, m + 1, Digits)
  IN IF /\ p >= 1
        /\ d - p \in 1..2 /\ d <= Len(s) /\ s[d] \in DotSlash
        /\ m - (d + 1) \in 1..2 /\ m <= Len(s) /\ s[m] \in DotSlash
        /\ y - (m + 1) >= 2
     THEN IF y - (m + 1) > 4 THEN m + 4 ELSE y - 1
     ELSE 0

(* datum[:\s]*([0-9]{1,2}[./][0-9]{1,2}[./][0-9]{2,4}) anchored at i. *)
DateMatchAt(s, i) ==
  IF ~MatchAt(s, i, datum) THEN None
  ELSE LET p == SkipClass(s, i + Len(datum), ColonSpace)
       IN IF DateTokenEnd(s, p) # 0 THEN Some(SubSeq(s, p, DateTokenEnd(s, p))) ELSE None

DateSearch(s) ==
  LET hits == {i \in 1..Len(s) : DateMatchAt(s, i) # None}
  IN IF hits = {} THEN None ELSE DateMatchAt(s, Min(hits))

invoice_labels == <<<<"r", "e", "c", "h", "n", "u", "n", "g">>, <<"i", "n", "v", "o", "i", "c", "e">>, <<"n", "r">>>>

InvoiceTokenChars == AsciiLowerSet \cup Digits \cup {"-"}

(* (?:rechnung|invoice|nr)[.\s#]*([a-z0-9-]+) anchored at i. *)
InvoiceMatchAt(s, i) ==
  LET alts == {a \in 1..Len(invoice_labels) :
                 /\ MatchAt(s, i, invoice_labels[a])
                 /\ LET p == SkipClass(s, i + Len(invoice_labels[a]), DotSpaceHash)
                    IN SkipClass(s, p, InvoiceTokenChars) > p}
  IN IF alts = {} THEN None
     ELSE LET p == SkipClass(s, i + Len(invoice_labels[Min(alts)]), DotSpaceHash)
          IN Some(SubSeq(s, p, SkipClass(s, p, InvoiceTokenChars) - 1))

InvoiceSearch(s) ==
  LET hits == {i \in 1..Len(s) : InvoiceMatchAt(s, i) # None}
  IN IF hits = {} THEN None ELSE InvoiceMatchAt(s, Min(hits))

(* re.search(r'[0-9,]+[.,][0-9]{2}', s) is not None *)
PriceSearch(s) == \E p \in 1..Len(s) : PriceEnd(s, p) # 0

(***************************************************************************)
(* datetime.strptime for the day-month-year formats the code uses:         *)
(* %d<sep>%m<sep>%Y (ylen = 4) and %d<sep>%m<sep>%y (ylen = 2).  None      *)
(* stands for ValueError.                                                  *)
(***************************************************************************)
IsLeap(y) == y % 4 = 0 /\ (y % 100 # 0 \/ y % 400 = 0)

DaysInMonth(y, m) ==
  IF m = 2 THEN (IF IsLeap(y) THEN 29 ELSE 28)
  ELSE IF m \in {4, 6, 9, 11} THEN 30 ELSE 31

AllDigits(s) == \A i \in 1..Len(s) : s[i] \in Digits

Strptime(ds, sep, ylen) ==
  LET d == SkipClass(ds, 1, Digits)
      m == SkipClass(ds, d + 1, Digits)
      dayTok == Slice(ds, 1, d - 1)
      monTok == Slice(ds, d + 1, m - 1)
      yearTok == Slice(ds, m + 1, Len(ds))
      year == IF ylen = 4 THEN ToInt(yearTok)
              ELSE IF ToInt(yearTok) < 69 THEN 2000 + ToInt(yearTok) ELSE 1900 + ToInt(yearTok)
  IN IF /\ d <= Len(ds) /\ ds[d] = sep
        /\ m <= Len(ds) /\ ds[m] = sep
        /\ Len(dayTok) \in 1..2 /\ ToInt(dayTok) \in 1..31
        /\ Len(monTok) \in 1..2 /\ ToInt(monTok) \in 1..12
        /\ Len(yearTok) = ylen /\ AllDigits(yearTok)
        /\ year >= 1
        /\ ToInt(dayTok) <= DaysInMonth(year, ToInt(monTok))
     THEN Some([year |-> year, month |-> ToInt(monTok), day |-> ToInt(dayTok)])
     ELSE None

(***************************************************************************)
(* ReceiptParsingService._parse_text_to_fields                             *)
(***************************************************************************)
EmptyDict == [k \in {} |-> None]

(* The dict d with d[k] = v. *)
Put(d, k, v) == [x \in DOMAIN d \cup {k} |-> IF x = k THEN v ELSE d[x]]

(* d.get(k, default) *)
Get(d, k, default) == IF k \in DOMAIN d THEN d[k] ELSE default

EUR == <<"E", "U", "R">>

NoneTypeLowerError ==
  <<"'", "N", "o", "n", "e", "T", "y", "p", "e", "'", " ", "o", "b", "j", "e", "c", "t", " ", "h", "a", "s", " ", "n", "o", " ", "a", "t", "t", "r", "i", "b", "u", "t", "e", " ", "'", "l", "o", "w", "e", "r", "'">>

(* Variant: a fourth format, %d/%m/%y, is tried as well. *)
date_formats_with_short_slash ==
  <<[sep |-> ".", ylen |-> 4], [sep |-> "/", ylen |-> 4], [sep |-> ".", ylen |-> 2],
    [sep |-> "/", ylen |-> 2]>>

(* for fmt in ['%d.%m.%Y', '%d/%m/%Y', '%d.%m.%y'] *)
date_formats == <<[sep |-> ".", ylen |-> 4], [sep |-> "/", ylen |-> 4], [sep |-> ".", ylen |-> 2]>>

(* The first format that parses date_str, or None when all raise *)
(* ValueError.                                                   *)
ParseDate(date_str) ==
  LET ok == {f \in 1..Len(date_formats) :
               Strptime(date_str, date_formats[f].sep, date_formats[f].ylen) # None}
  IN IF ok = {} THEN None
     ELSE Strptime(date_str, date_formats[Min(ok)].sep, date_formats[Min(ok)].ylen)

payment_patterns ==
  <<<<"e", "c", "-", "k", "a", "r", "t", "e">>,
    <<"k", "r", "e", "d", "i", "t", "k", "a", "r", "t", "e">>,
    <<"b", "a", "r", "g", "e", "l", "d">>,
    <<"ü", "b", "e", "r", "w", "e", "i", "s", "u", "n", "g">>,
    <<"p", "a", "y", "p", "a", "l">>>>

(* The stripped non-blank lines of ocr_text, in order. *)
NonBlankLines(text) ==
  LET raw == Split(text, "\n")
      stripped == [i \in 1..Len(raw) |-> Strip(raw[i])]
  IN SelectSeq(stripped, LAMBDA l : l # <<>>)

(* The dict with the keys whose option is set: an option is None (the key *)
(* is missing) or Some(value).                                            *)
FieldMapOf(options) ==
  [k \in {x \in DOMAIN options : options[x] # None} |-> options[k][1]]

(* Extract amount: None without a match, else the outcome of float(). *)
ExtractAmount(lower) ==
  LET amount_match == AmountSearch(lower)
  IN IF amount_match = None THEN None
     ELSE Some(Float(ReplaceChar(amount_match[1], ",", ".")))

(* Extract VAT: None without a match, else the outcomes of the two float() *)
(* calls, vat_rate first.                                                  *)
ExtractVat(lower) ==
  LET vat_match == VatSearch(lower)
  IN IF vat_match = None THEN None
     ELSE Some(<<Float(vat_match[1]), Float(ReplaceChar(vat_match[2], ",", "."))>>)

(* Extract date: None without a match or when no format parses. *)
ExtractDate(lower) ==
  LET date_match == DateSearch(lower)
  IN IF date_match = None THEN None ELSE ParseDate(date_match[1])

(* Extract merchant: the first non-blank line. *)
ExtractMerchant(ocr_text) ==
  LET lines == NonBlankLines(ocr_text)
  IN IF lines = <<>> THEN None ELSE Some(lines[1])

(* Variant: the pattern that stands first in the text wins. *)
ExtractPaymentFirstInText(lower) ==
  LET found == {i \in 1..Len(payment_patterns) : Contains(lower, payment_patterns[i])}
      at(i) == Min({p \in 1..Len(lower) : MatchAt(lower, p, payment_patterns[i])})
  IN IF found = {} THEN None
     ELSE Some(ReplaceChar(payment_patterns[CHOOSE i \in found : \A j \in found : at(i) <= at(j)],
                           "-", "_"))

(* Extract payment method: the first pattern of the list found in the text, *)
(* with hyphens replaced by underscores.                                    *)
ExtractPayment(lower) ==
  LET found == {i \in 1..Len(payment_patterns) : Contains(lower, payment_patterns[i])}
  IN IF found = {} THEN None
     ELSE Some(ReplaceChar(payment_patterns[Min(found)], "-", "_"))

(* Variant: vat_rate is set as soon as the text names mwst, with or *)
(* without a percentage and an amount behind it.                   *)
parse_text_to_fields_rate_alone(ocr) ==
  IF ocr = None THEN Raise("AttributeError", NoneTypeLowerError)
  ELSE
  LET amount == ExtractAmount(Lower(ocr[1]))
      vat == ExtractVat(Lower(ocr[1]))
  IN IF amount # None /\ Raised(amount[1]) THEN amount[1]
     ELSE IF vat # None /\ Raised(vat[1][1]) THEN vat[1][1]
     ELSE IF vat # None /\ Raised(vat[1][2]) THEN vat[1][2]
     ELSE Return(FieldMapOf(
            [amount |-> IF amount = None THEN None ELSE Some(amount[1].value),
             vat_rate |-> IF vat # None THEN Some(vat[1][1].value)
                          ELSE IF Contains(Lower(ocr[1]), mwst) THEN Some(0) ELSE None,
             vat |-> IF vat = None THEN None ELSE Some(vat[1][2].value),
             date |-> ExtractDate(Lower(ocr[1])),
             merchant |-> ExtractMerchant(ocr[1]),
             invoice_number |-> InvoiceSearch(Lower(ocr[1])),
             payment_method |-> ExtractPayment(Lower(ocr[1])),
             currency |-> Some(EUR)]))

(* ocr is None or Some(text).  The outcome is the dict of the extracted  *)
(* fields, or the exception that leaves the function: the ValueError of  *)
(* the first float() that fails, in the order amount, vat_rate, vat.     *)
parse_text_to_fields(ocr) ==
  IF ocr = None THEN Raise("AttributeError", NoneTypeLowerError)
  ELSE
  LET amount == ExtractAmount(Lower(ocr[1]))
      vat == ExtractVat(Lower(ocr[1]))
  IN IF amount # None /\ Raised(amount[1]) THEN amount[1]
     ELSE IF vat # None /\ Raised(vat[1][1]) THEN vat[1][1]
     ELSE IF vat # None /\ Raised(vat[1][2]) THEN vat[1][2]
     ELSE Return(FieldMapOf(
            [amount |-> IF amount = None THEN None ELSE Some(amount[1].value),
             vat_rate |-> IF vat = None THEN None ELSE Some(vat[1][1].value),
             vat |-> IF vat = None THEN None ELSE Some(vat[1][2].value),
             date |-> ExtractDate(Lower(ocr[1])),
             merchant |-> ExtractMerchant(ocr[1]),
             invoice_number |-> InvoiceSearch(Lower(ocr[1])),
             payment_method |-> ExtractPayment(Lower(ocr[1])),
             currency |-> Some(EUR)]))

(***************************************************************************)
(* ReceiptParsingService._auto_categorize                                  *)
(***************************************************************************)
hotel_keywords ==
  <<<<"h", "o", "t", "e", "l">>,
    <<"h", "o", "s", "t", "e", "l">>,
    <<"p", "e", "n", "s", "i", "o", "n">>,
    <<"ü", "b", "e", "r", "n", "a", "c", "h", "t", "u", "n", "g">>,
    <<"a", "c", "c", "o", "m", "m", "o", "d", "a", "t", "i", "o", "n">>,
    <<"z", "i", "m", "m", "e", "r">>>>

(* Variant: ticket is missing from the transport keywords. *)
transport_keywords_no_ticket ==
  <<<<"b", "a", "h", "n">>,
    <<"f", "l", "u", "g">>,
    <<"a", "i", "r", "l", "i", "n", "e">>,
    <<"t", "a", "x", "i">>,
    <<"u", "b", "e", "r">>,
    <<"b", "u", "s">>,
    <<"f", "a", "h", "r", "k", "a", "r", "t", "e">>>>

transport_keywords ==
  <<<<"b", "a", "h", "n">>,
    <<"f", "l", "u", "g">>,
    <<"a", "i", "r", "l", "i", "n", "e">>,
    <<"t", "a", "x", "i">>,
    <<"u", "b", "e", "r">>,
    <<"b", "u", "s">>,
    <<"t", "i", "c", "k", "e", "t">>,
    <<"f", "a", "h", "r", "k", "a", "r", "t", "e">>>>

meal_keywords ==
  <<<<"r", "e", "s", "t", "a", "u", "r", "a", "n", "t">>,
    <<"c", "a", "f", "é">>,
    <<"b", "a", "r">>,
    <<"p", "i", "z", "z", "a">>,
    <<"m", "c", "d", "o", "n", "a", "l", "d", "s">>,
    <<"b", "u", "r", "g", "e", "r">>,
    <<"b", "i", "s", "t", "r", "o">>,
    <<"e", "s", "s", "e", "n">>>>

entertainment_keywords ==
  <<<<"k", "i", "n", "o">>,
    <<"t", "h", "e", "a", "t", "e", "r">>,
    <<"m", "u", "s", "e", "u", "m">>,
    <<"t", "i", "c", "k", "e", "t">>,
    <<"e", "v", "e", "n", "t">>,
    <<"k", "o", "n", "z", "e", "r", "t">>>>

(* class ExpenseCategory *)
ExpenseCategory == {"lodging", "transport", "meals", "entertainment", "other"}

(* any(keyword in merchant or keyword in ocr_lower for keyword in keywords) *)
AnyKeyword(keywords, merchant, ocr_lower) ==
  \E i \in 1..Len(keywords) : Contains(merchant, keywords[i]) \/ Contains(ocr_lower, keywords[i])

(* Variant: the operands of the merchant test are exchanged. *)
auto_categorize_swapped(parsed_data, ocr_text) ==
  LET ocr_lower == Lower(ocr_text)
      merchant == Lower(Get(parsed_data, "merchant", <<>>))
      Hit(keywords) ==
        \E i \in 1..Len(keywords) :
          Contains(keywords[i], merchant) \/ Contains(ocr_lower, keywords[i])
  IN IF Hit(hotel_keywords) THEN "lodging"
     ELSE IF Hit(transport_keywords) THEN "transport"
     ELSE IF Hit(meal_keywords) THEN "meals"
     ELSE IF Hit(entertainment_keywords) THEN "entertainment"
     ELSE "other"

(* Variant: transport is tested before lodging. *)
auto_categorize_transport_first(parsed_data, ocr_text) ==
  LET ocr_lower == Lower(ocr_text)
      merchant == Lower(Get(parsed_data, "merchant", <<>>))
  IN IF AnyKeyword(transport_keywords, merchant, ocr_lower) THEN "transport"
     ELSE IF AnyKeyword(hotel_keywords, merchant, ocr_lower) THEN "lodging"
     ELSE IF AnyKeyword(meal_keywords, merchant, ocr_lower) THEN "meals"
     ELSE IF AnyKeyword(entertainment_keywords, merchant, ocr_lower) THEN "entertainment"
     ELSE "other"

auto_categorize(parsed_data, ocr_text) ==
  LET ocr_lower == Lower(ocr_text)
      merchant == Lower(Get(parsed_data, "merchant", <<>>))
  IN IF AnyKeyword(hotel_keywords, merchant, ocr_lower) THEN "lodging"
     ELSE IF AnyKeyword(transport_keywords, merchant, ocr_lower) THEN "transport"
     ELSE IF AnyKeyword(meal_keywords, merchant, ocr_lower) THEN "meals"
     ELSE IF AnyKeyword(entertainment_keywords, merchant, ocr_lower) THEN "entertainment"
     ELSE "other"

(***************************************************************************)
(* ReceiptParsingService._calculate_confidence                             *)
(***************************************************************************)
(* bool(v) of the value stored under key k: a float is true when it is   *)
(* not 0.0, a str when it is not empty, a datetime always.                *)
Truthy(k, v) ==
  IF k \in {"amount", "vat", "vat_rate"} THEN v # 0
  ELSE IF k = "date" THEN TRUE
  ELSE v # <<>>

(* bool(parsed_data.get(k)): a missing key gives None, which is false. *)
GetTruthy(parsed_data, k) == k \in DOMAIN parsed_data /\ Truthy(k, parsed_data[k])

(* Variant: no base confidence. *)
calculate_confidence_no_base(parsed_data, ocr_text) ==
  LET c1 == IF GetTruthy(parsed_data, "amount") THEN 25 ELSE 0
      c2 == c1 + (IF GetTruthy(parsed_data, "merchant") THEN 20 ELSE 0)
      c3 == c2 + (IF GetTruthy(parsed_data, "date") THEN 15 ELSE 0)
      c4 == c3 + (IF GetTruthy(parsed_data, "vat") THEN 10 ELSE 0)
      c5 == c4 + (IF Len(ocr_text) > 100 THEN 5 ELSE 0)
      c6 == c5 + (IF PriceSearch(ocr_text) THEN 5 ELSE 0)
  IN IF c6 < 100 THEN c6 ELSE 100

calculate_confidence(parsed_data, ocr_text) ==
  LET base == IF DOMAIN parsed_data # {} THEN 30 ELSE 0
      c1 == base + (IF GetTruthy(parsed_data, "amount") THEN 25 ELSE 0)
      c2 == c1 + (IF GetTruthy(parsed_data, "merchant") THEN 20 ELSE 0)
      c3 == c2 + (IF GetTruthy(parsed_data, "date") THEN 15 ELSE 0)
      c4 == c3 + (IF GetTruthy(parsed_data, "vat") THEN 10 ELSE 0)
      c5 == c4 + (IF Len(ocr_text) > 100 THEN 5 ELSE 0)
      c6 == c5 + (IF PriceSearch(ocr_text) THEN 5 ELSE 0)
  IN IF c6 < 100 THEN c6 ELSE 100

(***************************************************************************)
(* class ReceiptParsed (schemas/travel.py): every field is optional and    *)
(* defaults to None, except currency, which defaults to "EUR".             *)
(***************************************************************************)
ReceiptParsedFields ==
  {"amount", "currency", "date", "vat", "vat_rate", "merchant", "category", "invoice_number",
   "payment_method", "merchant_address", "merchant_tax_id", "parsing_confidence", "ocr_text"}

(* The ReceiptParsed built from the keyword arguments kwargs. *)
ReceiptParsed(kwargs) ==
  [f \in ReceiptParsedFields |->
     IF f \in DOMAIN kwargs THEN Some(kwargs[f])
     ELSE IF f = "currency" THEN Some(EUR) ELSE None]

ParsingFailed == <<"P", "a", "r", "s", "i", "n", "g", " ", "f", "a", "i", "l", "e", "d", ":", " ">>

(* The except branch of parse_receipt_file for an exception whose str() is msg. *)
FailureResult(msg) ==
  ReceiptParsed(Put(Put(EmptyDict, "parsing_confidence", 0), "ocr_text", ParsingFailed \o msg))

(***************************************************************************)
(* services/ocr.py                                                         *)
(***************************************************************************)
Currencies == <<<<"E", "U", "R">>, <<"€">>, <<"U", "S", "D">>, <<"C", "H", "F">>>>

(* (?<!\d)(\d+[\.,]\d{2})\s?(EUR|€|USD|CHF)? with re.IGNORECASE, anchored *)
(* at i: the groups <<group(1), group(2)>>, group(2) being None or Some,   *)
(* or None when there is no match at i.                                    *)
SimpleAmountMatchAt(s, i) ==
  LET e == SkipClass(s, i, Digits)
      c == IF e + 3 <= Len(s) /\ s[e + 3] \in Whitespace THEN e + 4 ELSE e + 3
      curs == {k \in 1..Len(Currencies) : MatchAtIgnoreCase(s, c, Currencies[k])}
  IN IF /\ (i = 1 \/ s[i - 1] \notin Digits)
        /\ e > i /\ e + 2 <= Len(s)
        /\ s[e] \in DotComma /\ s[e + 1] \in Digits /\ s[e + 2] \in Digits
     THEN <<SubSeq(s, i, e + 2),
            IF curs = {} THEN None ELSE Some(SubSeq(s, c, c + Len(Currencies[Min(curs)]) - 1))>>
     ELSE None

SimpleAmountSearch(s) ==
  LET hits == {i \in 1..Len(s) : SimpleAmountMatchAt(s, i) # None}
  IN IF hits = {} THEN None ELSE SimpleAmountMatchAt(s, Min(hits))

DotSlashDash == {".", "/", "-"}

(* (\d{2}[\./-]\d{2}[\./-]\d{2,4}) anchored at i: group(1) or None. *)
SimpleDateMatchAt(s, i) ==
  IF /\ i + 7 <= Len(s)
     /\ s[i] \in Digits /\ s[i + 1] \in Digits /\ s[i + 2] \in DotSlashDash
     /\ s[i + 3] \in Digits /\ s[i + 4] \in Digits /\ s[i + 5] \in DotSlashDash
     /\ s[i + 6] \in Digits /\ s[i + 7] \in Digits
  THEN LET y == SkipClass(s, i + 6, Digits)
       IN Some(SubSeq(s, i, IF y - (i + 6) > 4 THEN i + 9 ELSE y - 1))
  ELSE None

SimpleDateSearch(s) ==
  LET hits == {i \in 1..Len(s) : SimpleDateMatchAt(s, i) # None}
  IN IF hits = {} THEN None ELSE SimpleDateMatchAt(s, Min(hits))

LineBreaks == {"\n", "\r"}

(* text.strip().splitlines()[0] if text.strip().splitlines() else None *)
FirstLine(text) ==
  LET t == Strip(text)
      breaks == {i \in 1..Len(t) : t[i] \in LineBreaks}
  IN IF t = <<>> THEN None
     ELSE Some(Slice(t, 1, IF breaks = {} THEN Len(t) ELSE Min(breaks) - 1))

SearchNoneError ==
  <<"e", "x", "p", "e", "c", "t", "e", "d", " ", "s", "t", "r", "i", "n", "g", " ", "o", "r", " ", "b", "y", "t", "e", "s", "-", "l", "i", "k", "e", " ", "o", "b", "j", "e", "c", "t", ",", " ", "g", "o", "t", " ", "'", "N", "o", "n", "e", "T", "y", "p", "e", "'">>

(* simple_parse(text): text is None or Some(str).  The outcome is the dict *)
(* with the keys amount, currency, date, merchant (values None or Some),   *)
(* or the exception that leaves the function.                              *)
simple_parse(text) ==
  IF text = None THEN Raise("TypeError", SearchNoneError)
  ELSE
  LET s == text[1]
      amt_match == SimpleAmountSearch(s)
      raw == Float(ReplaceChar(amt_match[1], ",", "."))
      amount == IF amt_match # None /\ Returned(raw) THEN Some(raw.value) ELSE None
      cur == IF amt_match # None THEN amt_match[2] ELSE None
      currency == IF cur # None
                  THEN Some(Upper(IF cur[1] = <<"€">> THEN EUR ELSE cur[1]))
                  ELSE None
      date_match == SimpleDateSearch(s)
      ds == ReplaceChar(ReplaceChar(date_match[1], "/", "."), "-", ".")
      date == IF date_match = None THEN None
              ELSE IF Strptime(ds, ".", 4) # None THEN Strptime(ds, ".", 4)
              ELSE Strptime(ds, ".", 2)
      first_line == FirstLine(s)
      merchant == IF first_line # None
                  THEN Some(Slice(first_line[1], 1, IF Len(first_line[1]) < 255 THEN Len(first_line[1]) ELSE 255))
                  ELSE None
  IN Return([amount |-> amount, currency |-> currency, date |-> date, merchant |-> merchant])

(* A path of the file system, as extract_text_from_file sees it: the      *)
(* suffix of the name, whether a file is there and can be read, what the  *)
(* file holds ("pdf", "image" or "other") and the text the OCR engine      *)
(* reads from each of its pages.                                          *)
FileNotFound == <<"N", "o", " ", "s", "u", "c", "h", " ", "f", "i", "l", "e", " ", "o", "r", " ", "d", "i", "r", "e", "c", "t", "o", "r", "y">>

PermissionDenied == <<"P", "e", "r", "m", "i", "s", "s", "i", "o", "n", " ", "d", "e", "n", "i", "e", "d">>

CannotIdentify == <<"c", "a", "n", "n", "o", "t", " ", "i", "d", "e", "n", "t", "i", "f", "y", " ", "i", "m", "a", "g", "e", " ", "f", "i", "l", "e">>

PdfUnreadable == <<"U", "n", "a", "b", "l", "e", " ", "t", "o", " ", "g", "e", "t", " ", "p", "a", "g", "e", " ", "c", "o", "u", "n", "t", ".">>

(* The texts of the pages, joined by line feeds. *)
RECURSIVE JoinLines(_)
JoinLines(pages) ==
  IF pages = <<>> THEN <<>>
  ELSE IF Len(pages) = 1 THEN pages[1]
  ELSE pages[1] \o <<"\n">> \o JoinLines(Tail(pages))

extract_text_from_file(file) ==
  IF Lower(file.suffix) = <<".", "p", "d", "f">>
  THEN IF file.exists /\ file.readable /\ file.holds = "pdf"
       THEN Return(JoinLines(file.pages))
       ELSE Raise("PDFPageCountError", PdfUnreadable)
  ELSE IF ~file.exists THEN Raise("FileNotFoundError", FileNotFound)
       ELSE IF ~file.readable THEN Raise("PermissionError", PermissionDenied)
       ELSE IF file.holds # "image" THEN Raise("UnidentifiedImageError", CannotIdentify)
       ELSE Return(file.pages[1])

(***************************************************************************)
(* ReceiptParsingService._extract_text_ocr: the placeholder returns the    *)
(* same text for every file_path and mime_type.                            *)
(***************************************************************************)
PlaceholderText ==
  <<"\n", " ", " ", " ", " ", " ", " ", " ", " ", "H", "O", "T", "E", "L", " ", "B", "E", "R", "L",
    "I", "N", "\n", " ", " ", " ", " ", " ", " ", " ", " ", "F", "r", "i", "e", "d", "r", "i", "c",
    "h", "s", "t", "r", "a", "ß", "e", " ", "1", "2", "3", "\n", " ", " ", " ", " ", " ", " ", " ",
    " ", "1", "0", "1", "1", "7", " ", "B", "e", "r", "l", "i", "n", "\n", " ", " ", " ", " ", " ",
    " ", " ", " ", "\n", " ", " ", " ", " ", " ", " ", " ", " ", "R", "e", "c", "h", "n", "u", "n",
    "g", " ", "N", "r", ":", " ", "2", "0", "2", "4", "-", "0", "0", "1", "2", "3", "4", "\n", " ",
    " ", " ", " ", " ", " ", " ", " ", "D", "a", "t", "u", "m", ":", " ", "1", "5", ".", "0", "1",
    ".", "2", "0", "2", "4", "\n", " ", " ", " ", " ", " ", " ", " ", " ", "\n", " ", " ", " ",
    " ", " ", " ", " ", " ", "Ü", "b", "e", "r", "n", "a", "c", "h", "t", "u", "n", "g", " ", "B",
    "u", "s", "i", "n", "e", "s", "s", " ", "R", "o", "o", "m", " ", " ", " ", "8", "7", ",", "5",
    "0", " ", "€", "\n", " ", " ", " ", " ", " ", " ", " ", " ", "M", "w", "S", "t", ".", " ", "1",
    "9", "%", " ", " ", " ", " ", " ", " ", " ", " ", " ", " ", " ", " ", " ", " ", " ", " ", " ",
    " ", " ", " ", "1", "4", ",", "0", "1", " ", "€", "\n", " ", " ", " ", " ", " ", " ", " ", " ",
    "G", "e", "s", "a", "m", "t", " ", " ", " ", " ", " ", " ", " ", " ", " ", " ", " ", " ", " ",
    " ", " ", " ", " ", " ", " ", " ", " ", " ", "1", "0", "1", ",", "5", "1", " ", "€", "\n", " ",
    " ", " ", " ", " ", " ", " ", " ", "\n", " ", " ", " ", " ", " ", " ", " ", " ", "Z", "a", "h",
    "l", "u", "n", "g", ":", " ", "E", "C", "-", "K", "a", "r", "t", "e", "\n", " ", " ", " ", " ",
    " ", " ", " ", " ", "U", "S", "t", "-", "I", "d", "N", "r", ":", " ", "D", "E", "1", "2", "3",
    "4", "5", "6", "7", "8", "9", "\n", " ", " ", " ", " ", " ", " ", " ", " ">>

extract_text_ocr(file_path, mime_type) == Return(Some(PlaceholderText))

(***************************************************************************)
(* Inputs.                                                                 *)
(***************************************************************************)
(* Pieces of receipt text; an OCR text is up to MaxFragments of them. *)
Fragments ==
  <<<<"H", "O", "T", "E", "L", " ", "B", "E", "R", "L", "I", "N", "\n">>,
    <<"G", "e", "s", "a", "m", "t", ":", " ", "1", "0", "1", ",", "5", "1", "\n">>,
    <<"T", "o", "t", "a", "l", " ", "1", ",", "2", "3", "4", ",", "5", "6", "\n">>,
    <<"M", "w", "S", "t", ".", " ", "1", "9", "%", " ", "1", "4", ",", "0", "1", "\n">>,
    <<"D", "a", "t", "u", "m", ":", " ", "1", "5", ".", "0", "1", ".", "2", "0", "2", "4", "\n">>,
    <<"S", "u", "m", "m", "e", " ", "0", ",", "0", "0", "\n">>,
    <<" ", "\n">>>>

TextsOf(fragments) ==
  {Join([i \in 1..Len(ix) |-> fragments[ix[i]]]) :
     ix \in UNION {[1..n -> 1..Len(fragments)] : n \in 0..MaxFragments}}

OcrTexts == TextsOf(Fragments)

(* str(e) of the exceptions a step is made to raise. *)
ErrorMessages == {<<>>, <<"b", "o", "o", "m">>}

(* A file path names a file that exists or not. *)
FilePaths ==
  {[name |-> "uploads/receipt.jpg", exists |-> TRUE],
   [name |-> "uploads/missing.jpg", exists |-> FALSE]}

MimeTypes == {"image/jpeg", "application/pdf"}

(* What text acquisition does in a call: the code of _extract_text_ocr as  *)
(* it stands ("source"), or an OCR engine in its place that returns a text *)
(* or None, or raises.                                                     *)
OcrBehaviours ==
  {[kind |-> "source"]}
    \cup {[kind |-> "returns", value |-> Some(t)] : t \in OcrTexts}
    \cup {[kind |-> "returns", value |-> None]}
    \cup {[kind |-> "raises", msg |-> m] : m \in ErrorMessages}

(* The step after text acquisition in which an exception is raised from *)
(* outside the code of the step, if any.                                *)
Faults ==
  {[step |-> "none", msg |-> <<>>]}
    \cup {[step |-> st, msg |-> <<"b", "o", "o", "m">>] : st \in {"parse", "categorize", "score", "build"}}

(***************************************************************************)
(* State.                                                                  *)
(*   task: the calls of receipt_parser.parse_receipt_file, by call id:     *)
(*         the position of the coroutine, its arguments, its local         *)
(*         variables (frame), its returned ReceiptParsed and the exception *)
(*         it caught;                                                      *)
(*   unit: a direct call of one of the other functions, or a request to    *)
(*         an endpoint, with its arguments and its outcome;                *)
(*   receipt_parser: the attributes of the global ReceiptParsingService    *)
(*         instance all calls share;                                       *)
(*   db:   the rows of the tables users, travels and receipts.             *)
(***************************************************************************)
VARIABLES task, unit, receipt_parser, db

vars == <<task, unit, receipt_parser, db>>

(* ReceiptParsingService(): the attributes __init__ sets. *)
ReceiptParsingService == [confidence_threshold |-> 70]

(* A database without rows. *)
EmptyDb == [users |-> EmptyDict, travels |-> EmptyDict, receipts |-> <<>>]

IdleTask ==
  [pc |-> "idle", file_path |-> None, mime_type |-> None, ocr |-> [kind |-> "source"],
   fault |-> [step |-> "none", msg |-> <<>>], frame |-> EmptyDict, result |-> None,
   raised |-> None, steps |-> <<>>]

NoUnit == [fn |-> "none", args |-> <<>>, out |-> None]

(* The classes the handler "except Exception" catches, among those raised. *)
ExceptionSubclasses == {"Exception", "ValueError", "AttributeError"}

(* Variant: no handler, the exception leaves the coroutine. *)
ExceptPropagates(t, o) == [t EXCEPT !.pc = "propagated", !.raised = Some(o)]

(* Variant: the handler passes the fields parsed so far to the result. *)
ExceptKeepsFields(t, o) ==
  [t EXCEPT !.pc = "done", !.raised = Some(o),
            !.result = Some(ReceiptParsed(Put(Put(Get(t.frame, "parsed_data", EmptyDict),
                                                  "parsing_confidence", 0),
                                              "ocr_text", ParsingFailed \o o.msg)))]

(* Variant: the handler runs the steps again from text acquisition. *)
ExceptRetries(t, o) == [t EXCEPT !.pc = "extract", !.raised = Some(o)]

(* The except branch: an Exception is logged and the failure result is *)
(* returned; anything else leaves the coroutine.                       *)
Except(t, o) ==
  IF o.type \in ExceptionSubclasses
  THEN [t EXCEPT !.pc = "done", !.raised = Some(o), !.result = Some(FailureResult(o.msg))]
  ELSE [t EXCEPT !.pc = "propagated", !.raised = Some(o)]

(* The outcome of a step: the fault raised in it, or what its code does. *)
StepOutcome(t, step, o) == IF t.fault.step = step THEN Raise("Exception", t.fault.msg) ELSE o

(* A caller awaits parse_receipt_file(file_path, mime_type). *)
ParseReceiptFile(c) ==
  /\ task[c].pc = "idle"
  /\ \E fp \in FilePaths, mt \in MimeTypes, ob \in OcrBehaviours, f \in Faults :
       task' = [task EXCEPT ![c] =
                  [IdleTask EXCEPT !.pc = "extract", !.file_path = Some(fp), !.mime_type = Some(mt),
                                   !.ocr = ob, !.fault = f]]
  /\ UNCHANGED <<unit, receipt_parser, db>>

(* ocr_text = await self._extract_text_ocr(file_path, mime_type) *)
ExtractTextOcr(c) ==
  LET t == task[c]
      o == IF t.ocr.kind = "source" THEN extract_text_ocr(t.file_path[1], t.mime_type[1])
           ELSE IF t.ocr.kind = "returns" THEN Return(t.ocr.value)
           ELSE Raise("Exception", t.ocr.msg)
      t1 == [t EXCEPT !.steps = Append(@, "extract")]
  IN /\ t.pc = "extract"
     /\ task' = [task EXCEPT ![c] =
                   IF Raised(o) THEN Except(t1, o)
                   ELSE [t1 EXCEPT !.pc = "parse", !.frame = Put(@, "ocr_text", o.value)]]
     /\ UNCHANGED <<unit, receipt_parser, db>>

(* parsed_data = await self._parse_text_to_fields(ocr_text) *)
ParseTextToFields(c) ==
  LET t == task[c]
      o == StepOutcome(t, "parse", parse_text_to_fields(t.frame["ocr_text"]))
      t1 == [t EXCEPT !.steps = Append(@, "parse")]
  IN /\ t.pc = "parse"
     /\ task' = [task EXCEPT ![c] =
                   IF Raised(o) THEN Except(t1, o)
                   ELSE [t1 EXCEPT !.pc = "categorize", !.frame = Put(@, "parsed_data", o.value)]]
     /\ UNCHANGED <<unit, receipt_parser, db>>

(* Variant: the category is not merged into parsed_data. *)
AutoCategorizeNoMerge(c) ==
  LET t == task[c]
      o == StepOutcome(t, "categorize",
                       Return(auto_categorize(t.frame["parsed_data"], t.frame["ocr_text"][1])))
      t1 == [t EXCEPT !.steps = Append(@, "categorize")]
  IN /\ t.pc = "categorize"
     /\ task' = [task EXCEPT ![c] =
                   IF Raised(o) THEN Except(t1, o)
                   ELSE [t1 EXCEPT !.pc = "score", !.frame = Put(@, "category", o.value)]]
     /\ UNCHANGED <<unit, receipt_parser, db>>

(* Variant: the instance remembers the last category and a text without *)
(* a keyword gets the remembered one.                                   *)
AutoCategorizeRemembered(c) ==
  LET t == task[c]
      found == auto_categorize(t.frame["parsed_data"], t.frame["ocr_text"][1])
      category == IF found = "other" THEN Get(receipt_parser, "last_category", found) ELSE found
      o == StepOutcome(t, "categorize", Return(category))
      t1 == [t EXCEPT !.steps = Append(@, "categorize")]
  IN /\ t.pc = "categorize"
     /\ task' = [task EXCEPT ![c] =
                   IF Raised(o) THEN Except(t1, o)
                   ELSE [t1 EXCEPT !.pc = "score",
                                   !.frame = Put(Put(@, "category", o.value), "parsed_data",
                                                 Put(t.frame["parsed_data"], "category", o.value))]]
     /\ receipt_parser' = Put(receipt_parser, "last_category", category)
     /\ UNCHANGED <<unit, db>>

(* category = await self._auto_categorize(parsed_data, ocr_text) *)
(* parsed_data["category"] = category                            *)
AutoCategorize(c) ==
  LET t == task[c]
      o == StepOutcome(t, "categorize",
                       Return(auto_categorize(t.frame["parsed_data"], t.frame["ocr_text"][1])))
      t1 == [t EXCEPT !.steps = Append(@, "categorize")]
  IN /\ t.pc = "categorize"
     /\ task' = [task EXCEPT ![c] =
                   IF Raised(o) THEN Except(t1, o)
                   ELSE [t1 EXCEPT !.pc = "score",
                                   !.frame = Put(Put(@, "category", o.value), "parsed_data",
                                                 Put(t.frame["parsed_data"], "category", o.value))]]
     /\ UNCHANGED <<unit, receipt_parser, db>>

(* Variant: the instance keeps the highest score seen and returns it. *)
CalculateConfidenceRunningMax(c) ==
  LET t == task[c]
      best == Max({Get(receipt_parser, "best_confidence", 0),
                   calculate_confidence(t.frame["parsed_data"], t.frame["ocr_text"][1])})
      o == StepOutcome(t, "score", Return(best))
      t1 == [t EXCEPT !.steps = Append(@, "score")]
  IN /\ t.pc = "score"
     /\ task' = [task EXCEPT ![c] =
                   IF Raised(o) THEN Except(t1, o)
                   ELSE [t1 EXCEPT !.pc = "build", !.frame = Put(@, "confidence", o.value)]]
     /\ receipt_parser' = Put(receipt_parser, "best_confidence", best)
     /\ UNCHANGED <<unit, db>>

(* confidence = self._calculate_confidence(parsed_data, ocr_text) *)
CalculateConfidence(c) ==
  LET t == task[c]
      o == StepOutcome(t, "score",
                       Return(calculate_confidence(t.frame["parsed_data"], t.frame["ocr_text"][1])))
      t1 == [t EXCEPT !.steps = Append(@, "score")]
  IN /\ t.pc = "score"
     /\ task' = [task EXCEPT ![c] =
                   IF Raised(o) THEN Except(t1, o)
                   ELSE [t1 EXCEPT !.pc = "build", !.frame = Put(@, "confidence", o.value)]]
     /\ UNCHANGED <<unit, receipt_parser, db>>

(* return ReceiptParsed(parsed_data, parsing_confidence=confidence, ocr_text=ocr_text) *)
BuildResult(c) ==
  LET t == task[c]
      kwargs == Put(Put(t.frame["parsed_data"], "parsing_confidence", t.frame["confidence"]),
                    "ocr_text", t.frame["ocr_text"][1])
      o == StepOutcome(t, "build", Return(ReceiptParsed(kwargs)))
      t1 == [t EXCEPT !.steps = Append(@, "build")]
  IN /\ t.pc = "build"
     /\ task' = [task EXCEPT ![c] =
                   IF Raised(o) THEN Except(t1, o)
                   ELSE [t1 EXCEPT !.pc = "done", !.result = Some(o.value)]]
     /\ UNCHANGED <<unit, receipt_parser, db>>

(* The caller has the ReceiptParsed; the coroutine is over and the caller *)
(* may call again.                                                        *)
ReturnToCaller(c) ==
  /\ task[c].pc = "done"
  /\ task' = [task EXCEPT ![c] = IdleTask]
  /\ UNCHANGED <<unit, receipt_parser, db>>

(* One caller of the shared receipt_parser. *)
Init ==
  /\ task = [c \in {1} |-> IdleTask]
  /\ receipt_parser = ReceiptParsingService
  /\ db = EmptyDb
  /\ unit = NoUnit

Next ==
  \/ \E c \in DOMAIN task : ParseReceiptFile(c)
  \/ \E c \in DOMAIN task : ExtractTextOcr(c)
  \/ \E c \in DOMAIN task : ParseTextToFields(c)
  \/ \E c \in DOMAIN task : AutoCategorize(c)
  \/ \E c \in DOMAIN task : CalculateConfidence(c)
  \/ \E c \in DOMAIN task : BuildResult(c)
  \/ \E c \in DOMAIN task : ReturnToCaller(c)

Spec == Init /\ [][Next]_vars

(***************************************************************************)
(* Two callers of the shared receipt_parser (two uploads in flight): the   *)
(* coroutines interleave at their await points.                            *)
(***************************************************************************)
Callers == {1, 2}

(* The arguments and the behaviour of text acquisition of these calls. *)
ConcurrentCallArgs ==
  {[file_path |-> [name |-> "uploads/receipt.jpg", exists |-> TRUE], mime_type |-> "image/jpeg",
    ocr |-> ob, fault |-> f] :
     ob \in {[kind |-> "source"],
             [kind |-> "returns", value |-> Some(Fragments[1])],
             [kind |-> "returns", value |-> Some(Fragments[3])],
             [kind |-> "returns", value |-> Some(<<>>)],
             [kind |-> "returns", value |-> None],
             [kind |-> "raises", msg |-> <<"b", "o", "o", "m">>]},
     f \in {[step |-> "none", msg |-> <<>>], [step |-> "score", msg |-> <<"b", "o", "o", "m">>]}}

(* One of the callers awaits parse_receipt_file(file_path, mime_type). *)
ParseReceiptFileOf(c) ==
  /\ task[c].pc = "idle"
  /\ \E a \in ConcurrentCallArgs :
       task' = [task EXCEPT ![c] =
                  [IdleTask EXCEPT !.pc = "extract", !.file_path = Some(a.file_path),
                                   !.mime_type = Some(a.mime_type), !.ocr = a.ocr, !.fault = a.fault]]
  /\ UNCHANGED <<unit, receipt_parser, db>>

InitConcurrent ==
  /\ task = [c \in Callers |-> IdleTask]
  /\ unit = NoUnit
  /\ receipt_parser = ReceiptParsingService
  /\ db = EmptyDb

NextConcurrent ==
  \/ \E c \in DOMAIN task : ParseReceiptFileOf(c)
  \/ \E c \in DOMAIN task : ExtractTextOcr(c)
  \/ \E c \in DOMAIN task : ParseTextToFields(c)
  \/ \E c \in DOMAIN task : AutoCategorize(c)
  \/ \E c \in DOMAIN task : CalculateConfidence(c)
  \/ \E c \in DOMAIN task : BuildResult(c)
  \/ \E c \in DOMAIN task : ReturnToCaller(c)

SpecConcurrent == InitConcurrent /\ [][NextConcurrent]_vars

(***************************************************************************)
(* Direct calls of _calculate_confidence(parsed_data, ocr_text).           *)
(***************************************************************************)
Optional(S) == {None} \cup {Some(v) : v \in S}

(* Every dict over a subset of the keys amount, merchant, date, vat and *)
(* currency, an amount or vat being zero or not.                        *)
FieldMaps ==
  {FieldMapOf([amount |-> a, merchant |-> m, date |-> d, vat |-> v, currency |-> c]) :
     a \in Optional({0, 8750}),
     m \in Optional({<<"H", "o", "t", "e", "l", " ", "B", "e", "r", "l", "i", "n">>}),
     d \in Optional({[year |-> 2024, month |-> 1, day |-> 15]}),
     v \in Optional({0, 1401}),
     c \in Optional({EUR})}

Filler(n) == [i \in 1..n |-> "x"]

(* Texts of 100 characters and fewer, and of more, with and without a price. *)
ConfidenceTexts ==
  {<<>>, Filler(100), Filler(101), <<"8", "7", ",", "5", "0">>, Filler(95) \o <<"8", "7", ",", "5", "0">>, Filler(96) \o <<"8", "7", ",", "5", "0">>,
   <<"H", "O", "T", "E", "L", " ", "B", "E", "R", "L", "I", "N", " ", "R", "e", "c", "h", "n", "u", "n", "g", " ", "8", "7", ",", "5", "0", " ", "€", " ", "M", "w", "S", "t", " ", "1", "9", "%">>, PlaceholderText}

InitConfidence ==
  /\ task = EmptyDict
  /\ receipt_parser = ReceiptParsingService
  /\ db = EmptyDb
  /\ unit \in {[fn |-> "_calculate_confidence", args |-> <<d, t>>, out |-> None] :
                 d \in FieldMaps, t \in ConfidenceTexts}

CalculateConfidenceCall ==
  /\ unit.fn = "_calculate_confidence"
  /\ unit.out = None
  /\ unit' = [unit EXCEPT !.out = Some(Return(calculate_confidence(unit.args[1], unit.args[2])))]
  /\ UNCHANGED <<task, receipt_parser, db>>

NextConfidence == CalculateConfidenceCall

SpecConfidence == InitConfidence /\ [][NextConfidence]_vars

(***************************************************************************)
(* Direct calls of _auto_categorize(parsed_data, ocr_text).                *)
(***************************************************************************)
CategoryFragments ==
  <<<<"H", "O", "T", "E", "L", " ">>,
    <<"Ü", "b", "e", "r", "n", "a", "c", "h", "t", "u", "n", "g", " ">>,
    <<"F", "a", "h", "r", "k", "a", "r", "t", "e", " ", "I", "C", "E", " ", "1", "2", "3", " ">>,
    <<"T", "i", "c", "k", "e", "t", " ">>,
    <<"P", "i", "z", "z", "a", " ", "M", "a", "r", "g", "h", "e", "r", "i", "t", "a", " ">>,
    <<"M", "u", "s", "e", "u", "m", " ">>,
    <<"B", "u", "s", "i", "n", "e", "s", "s", " ", "R", "o", "o", "m", " ">>,
    <<"Q", "u", "i", "t", "t", "u", "n", "g", " ">>,
    <<"U", "e", "b", "e", "r", "n", "a", "c", "h", "t", "u", "n", "g", " ">>,
    <<"C", "a", "f", "e", " ", "C", "e", "n", "t", "r", "a", "l", " ">>>>

CategoryTexts == TextsOf(CategoryFragments)

(* parsed_data without a merchant, and with one. *)
CategoryFieldMaps ==
  {EmptyDict}
    \cup {Put(EmptyDict, "merchant", m) :
            m \in {<<"H", "o", "t", "e", "l", " ", "B", "e", "r", "l", "i", "n">>, <<"D", "e", "u", "t", "s", "c", "h", "e", " ", "B", "a", "h", "n">>, <<"R", "e", "s", "t", "a", "u", "r", "a", "n", "t", " ", "A", "B", "C">>, <<"K", "I", "N", "O">>, <<"S", "h", "o", "p">>}}

InitCategorize ==
  /\ task = EmptyDict
  /\ receipt_parser = ReceiptParsingService
  /\ db = EmptyDb
  /\ unit \in {[fn |-> "_auto_categorize", args |-> <<d, t>>, out |-> None] :
                 d \in CategoryFieldMaps, t \in CategoryTexts}

AutoCategorizeCall ==
  /\ unit.fn = "_auto_categorize"
  /\ unit.out = None
  /\ unit' = [unit EXCEPT !.out = Some(Return(auto_categorize(unit.args[1], unit.args[2])))]
  /\ UNCHANGED <<task, receipt_parser, db>>

NextCategorize == AutoCategorizeCall

SpecCategorize == InitCategorize /\ [][NextCategorize]_vars

(***************************************************************************)
(* Direct calls of the functions of services/ocr.py.                       *)
(***************************************************************************)
SimpleFragments ==
  <<<<"C", "A", "F", "E", " ", "B", "I", "S", "T", "R", "O", "\n">>,
    <<"T", "O", "T", "A", "L", ":", " ", "2", "0", ".", "5", "0", " ", "E", "U", "R", "\n">>,
    <<"1", "2", ",", "5", "0", "€", " ">>,
    <<"1", "5", ".", "0", "1", ".", "2", "0", "2", "4", " ">>,
    <<"3", "1", "/", "0", "2", "/", "2", "4", " ">>,
    <<" ", " ">>>>

(* simple_parse is given None or a text. *)
SimpleParseInputs == {None} \cup {Some(t) : t \in TextsOf(SimpleFragments)}

(* The files extract_text_from_file is given: a missing file cannot be *)
(* read and holds nothing.                                             *)
Files ==
  {[suffix |-> sx, exists |-> FALSE, readable |-> FALSE, holds |-> "nothing", pages |-> <<>>] :
     sx \in {<<".", "p", "d", "f">>, <<".", "P", "D", "F">>, <<".", "j", "p", "g">>, <<".", "t", "x", "t">>}}
    \cup {[suffix |-> sx, exists |-> TRUE, readable |-> r, holds |-> h, pages |-> p] :
            sx \in {<<".", "p", "d", "f">>, <<".", "P", "D", "F">>, <<".", "j", "p", "g">>, <<".", "t", "x", "t">>}, r \in BOOLEAN, h \in {"pdf", "image", "other"},
            p \in {<<<<"T", "O", "T", "A", "L", " ", "2", "0", ".", "5", "0">>>>, <<<<"P", "a", "g", "e", " ", "1">>, <<"P", "a", "g", "e", " ", "2">>>>}}

InitOcr ==
  /\ task = EmptyDict
  /\ receipt_parser = ReceiptParsingService
  /\ db = EmptyDb
  /\ unit \in {[fn |-> "simple_parse", args |-> <<x>>, out |-> None] : x \in SimpleParseInputs}
               \cup {[fn |-> "extract_text_from_file", args |-> <<f>>, out |-> None] : f \in Files}

SimpleParseCall ==
  /\ unit.fn = "simple_parse"
  /\ unit.out = None
  /\ unit' = [unit EXCEPT !.out = Some(simple_parse(unit.args[1]))]
  /\ UNCHANGED <<task, receipt_parser, db>>

ExtractTextFromFileCall ==
  /\ unit.fn = "extract_text_from_file"
  /\ unit.out = None
  /\ unit' = [unit EXCEPT !.out = Some(extract_text_from_file(unit.args[1]))]
  /\ UNCHANGED <<task, receipt_parser, db>>

NextOcr == SimpleParseCall \/ ExtractTextFromFileCall

SpecOcr == InitOcr /\ [][NextOcr]_vars

(***************************************************************************)
(* Properties of parse_receipt_file (Spec).                                *)
(***************************************************************************)
Calls == DOMAIN task

Done(c) == task[c].pc = "done"

(* A step of the call raised. *)
Failed(c) == task[c].raised # None

(* The ReceiptParsed the finished call returned. *)
Result(c) == task[c].result[1]

IsFailureSignal(r) ==
  /\ r["parsing_confidence"] = Some(0)
  /\ r["ocr_text"] # None
  /\ StartsWith(r["ocr_text"][1], <<"P", "a", "r", "s", "i", "n", "g", " ", "f", "a", "i", "l", "e", "d", ":">>)

(* C1: parse_receipt_file never raises: whatever text acquisition returns *)
(* and whichever step raises, no exception leaves the call, and the call  *)
(* ends with a ReceiptParsed whose parsing_confidence is set and whose    *)
(* ocr_text is a string.                                                  *)
C1_NeverRaises ==
  \A c \in Calls :
    /\ task[c].pc # "propagated"
    /\ Failed(c) => Done(c)
    /\ Done(c) =>
         /\ task[c].result # None
         /\ Result(c)["parsing_confidence"] # None
         /\ Result(c)["ocr_text"] # None

(* A call that went through every step and failed in the last one. *)
C1_Witness ==
  \E c \in Calls :
    /\ Done(c) /\ Failed(c)
    /\ task[c].steps = <<"extract", "parse", "categorize", "score", "build">>
    /\ Result(c)["ocr_text"] # None

ExtractedFields ==
  {"amount", "vat", "vat_rate", "date", "merchant", "category", "invoice_number", "payment_method"}

(* C2: when a step raises an exception with message m, the result has      *)
(* parsing_confidence 0, ocr_text "Parsing failed: " + m and none of the  *)
(* extracted fields set.                                                   *)
C2_FailureResult ==
  \A c \in Calls :
    (Done(c) /\ Failed(c)) =>
      /\ Result(c)["parsing_confidence"] = Some(0)
      /\ Result(c)["ocr_text"] = Some(<<"P", "a", "r", "s", "i", "n", "g", " ", "f", "a", "i", "l", "e", "d", ":", " ">> \o task[c].raised[1].msg)
      /\ \A f \in ExtractedFields : Result(c)[f] = None

(* A call that failed after an amount and a merchant had been extracted. *)
C2_Witness ==
  \E c \in Calls :
    /\ Done(c) /\ Failed(c)
    /\ "parsed_data" \in DOMAIN task[c].frame
    /\ {"amount", "merchant"} \subseteq DOMAIN task[c].frame["parsed_data"]
    /\ Result(c)["amount"] = None

(* C4: a result produced without an exception has a category, one of the *)
(* five values; in every result the category is absent or one of them.   *)
C4_CategoryOfResult ==
  \A c \in Calls :
    Done(c) =>
      /\ ~Failed(c) => Result(c)["category"] # None
      /\ Result(c)["category"] # None => Result(c)["category"][1] \in ExpenseCategory

(* A successful parse of a text without any category keyword. *)
C4_Witness ==
  \E c \in Calls : Done(c) /\ ~Failed(c) /\ Result(c)["category"] = Some("other")

(* C5: a result on a path where no step raised has a non-zero             *)
(* parsing_confidence; parsing_confidence 0 occurs only in the failure    *)
(* result, whose ocr_text starts with "Parsing failed:".                  *)
C5_ZeroMeansFailure ==
  \A c \in Calls :
    Done(c) =>
      /\ ~Failed(c) => Result(c)["parsing_confidence"] # Some(0)
      /\ Result(c)["parsing_confidence"] = Some(0) => (Failed(c) /\ IsFailureSignal(Result(c)))

(* A sparse extraction without an exception: a score below 50. *)
C5_Witness ==
  \E c \in Calls :
    /\ Done(c) /\ ~Failed(c)
    /\ Result(c)["amount"] = None
    /\ Result(c)["parsing_confidence"][1] < 50

(* The call ran its five steps on the empty text and none raised. *)
EmptyTextParsed(c) ==
  /\ Done(c) /\ ~Failed(c)
  /\ task[c].steps = <<"extract", "parse", "categorize", "score", "build">>
  /\ task[c].frame["ocr_text"] = Some(<<>>)

(* C6 as stated: for the empty text and no exception the steps yield *)
(* category other and confidence 0.                                  *)
C6_EmptyTextScoresZero ==
  \A c \in Calls :
    EmptyTextParsed(c) =>
      /\ Result(c)["category"] = Some("other")
      /\ Result(c)["parsing_confidence"] = Some(0)

(* C6 amended: for the empty text and no exception the steps yield       *)
(* category other and confidence 30: the field map the scorer sees holds *)
(* currency and category, so the base applies.                           *)
C6_EmptyTextScoresBase ==
  \A c \in Calls :
    EmptyTextParsed(c) =>
      /\ Result(c)["category"] = Some("other")
      /\ Result(c)["parsing_confidence"] = Some(30)
      /\ DOMAIN task[c].frame["parsed_data"] = {"currency", "category"}

C6_Witness == \E c \in Calls : EmptyTextParsed(c) /\ Result(c)["ocr_text"] = Some(<<>>)

(* C7: a call whose file does not exist, or whose text acquisition fails, *)
(* returns the failure signal.  The file is looked at where the code of   *)
(* _extract_text_ocr itself acquires the text.                            *)
C7_MissingFileFails ==
  \A c \in Calls :
    (/\ Done(c)
     /\ \/ task[c].ocr.kind = "source" /\ ~task[c].file_path[1].exists
        \/ Failed(c) /\ task[c].steps = <<"extract">>)
      => IsFailureSignal(Result(c))

(***************************************************************************)
(* Properties of the direct calls.                                         *)
(***************************************************************************)
(* The direct call of fn has returned or raised. *)
Called(fn) == unit.fn = fn /\ unit.out # None

Outcome == unit.out[1]

Unusable(file) ==
  \/ ~file.exists
  \/ ~file.readable
  \/ file.holds = "other"

(* C8: extract_text_from_file returns the empty string, and does not *)
(* raise, for a file that is missing, unreadable or unsupported.     *)
C8_UnusableFileGivesEmptyText ==
  (Called("extract_text_from_file") /\ Unusable(unit.args[1])) => Outcome = Return(<<>>)

(* C9: simple_parse never raises and returns a dict with the keys amount, *)
(* currency, date and merchant, for every input including the empty      *)
(* string and None; for empty input the four values are None.            *)
C9_SimpleParseTotal ==
  Called("simple_parse") =>
    /\ Returned(Outcome)
    /\ DOMAIN Outcome.value = {"amount", "currency", "date", "merchant"}
    /\ unit.args[1] \in {None, Some(<<>>)} =>
         \A k \in DOMAIN Outcome.value : Outcome.value[k] = None

(* The category order of the claim and the keywords of each category. *)
CategoryOrder == <<"lodging", "transport", "meals", "entertainment">>

KeywordsOf(category) ==
  LET list == CASE category = "lodging" -> hotel_keywords
                [] category = "transport" -> transport_keywords
                [] category = "meals" -> meal_keywords
                [] category = "entertainment" -> entertainment_keywords
  IN {list[i] : i \in 1..Len(list)}

(* Some keyword of the category occurs in the lower-cased merchant or text. *)
Occurs(category, parsed_data, ocr_text) ==
  \E kw \in KeywordsOf(category) :
    \/ Contains(Lower(Get(parsed_data, "merchant", <<>>)), kw)
    \/ Contains(Lower(ocr_text), kw)

(* C10: _auto_categorize returns the first category, in the order lodging, *)
(* transport, meals, entertainment, of which a keyword occurs in the       *)
(* lower-cased merchant or text; it returns other exactly when no keyword  *)
(* of any category occurs; it always returns one of the five values.       *)
C10_FirstCategoryInOrder ==
  Called("_auto_categorize") =>
    LET d == unit.args[1]
        t == unit.args[2]
        v == Outcome.value
    IN /\ v \in ExpenseCategory
       /\ (v = "other") <=> (\A i \in 1..Len(CategoryOrder) : ~Occurs(CategoryOrder[i], d, t))
       /\ \A i \in 1..Len(CategoryOrder) :
            (v = CategoryOrder[i]) <=>
              (/\ Occurs(CategoryOrder[i], d, t)
               /\ \A j \in 1..(i - 1) : ~Occurs(CategoryOrder[j], d, t))

(* A call in which a transport keyword occurs too and lodging wins. *)
C10_Witness ==
  /\ Called("_auto_categorize")
  /\ Outcome.value = "lodging"
  /\ Occurs("transport", unit.args[1], unit.args[2])
  /\ Occurs("entertainment", unit.args[1], unit.args[2])

(* The keyword occurs in the lower-cased merchant or text. *)
KeywordOccurs(kw, parsed_data, ocr_text) ==
  \/ Contains(Lower(Get(parsed_data, "merchant", <<>>)), kw)
  \/ Contains(Lower(ocr_text), kw)

(* The entertainment keywords other than ticket. *)
EntertainmentOnly == {<<"k", "i", "n", "o">>, <<"t", "h", "e", "a", "t", "e", "r">>, <<"m", "u", "s", "e", "u", "m">>, <<"e", "v", "e", "n", "t">>, <<"k", "o", "n", "z", "e", "r", "t">>}

(* C11: a merchant or text containing ticket is categorized as lodging *)
(* when a lodging keyword occurs and as transport otherwise, never as  *)
(* entertainment, meals or other; entertainment is returned only when  *)
(* one of kino, theater, museum, event, konzert occurs and no lodging, *)
(* transport or meals keyword does.                                    *)
C11_TicketIsTransport ==
  Called("_auto_categorize") =>
    LET d == unit.args[1]
        t == unit.args[2]
        v == Outcome.value
    IN /\ KeywordOccurs(<<"t", "i", "c", "k", "e", "t">>, d, t) =>
            v = (IF Occurs("lodging", d, t) THEN "lodging" ELSE "transport")
       /\ v = "entertainment" =>
            /\ \E kw \in EntertainmentOnly : KeywordOccurs(kw, d, t)
            /\ ~Occurs("lodging", d, t)
            /\ ~Occurs("transport", d, t)
            /\ ~Occurs("meals", d, t)

(* A ticket for a museum, with no lodging keyword: transport. *)
C11_Witness ==
  /\ Called("_auto_categorize")
  /\ KeywordOccurs(<<"t", "i", "c", "k", "e", "t">>, unit.args[1], unit.args[2])
  /\ KeywordOccurs(<<"m", "u", "s", "e", "u", "m">>, unit.args[1], unit.args[2])
  /\ Outcome.value = "transport"

(* No keyword of the four lists of the code occurs. *)
NoListedKeyword(parsed_data, ocr_text) ==
  \A i \in 1..Len(CategoryOrder) : ~Occurs(CategoryOrder[i], parsed_data, ocr_text)

(* C12: a text whose only category keyword is uebernachtung is categorized *)
(* as lodging, and one whose only category keyword is cafe, without the    *)
(* accent, as meals.                                                       *)
C12_AsciiSpellings ==
  Called("_auto_categorize") =>
    LET d == unit.args[1]
        t == unit.args[2]
        ueber == KeywordOccurs(<<"u", "e", "b", "e", "r", "n", "a", "c", "h", "t", "u", "n", "g">>, d, t)
        cafe == KeywordOccurs(<<"c", "a", "f", "e">>, d, t)
    IN NoListedKeyword(d, t) =>
         /\ (ueber /\ ~cafe) => Outcome.value = "lodging"
         /\ (cafe /\ ~ueber) => Outcome.value = "meals"

(***************************************************************************)
(* Direct calls of _parse_text_to_fields(ocr_text).                        *)
(***************************************************************************)
(* Lines of receipt text; an input is up to MaxFragments of them. *)
FieldFragments ==
  <<<<"H", "O", "T", "E", "L", " ", "B", "E", "R", "L", "I", "N", "\n">>,
    <<"R", "e", "c", "h", "n", "u", "n", "g", " ", "N", "r", ":", " ", "2", "0", "2", "4", "-", "0", "0", "1", "2", "3", "4", "\n">>,
    <<"D", "a", "t", "u", "m", ":", " ", "1", "5", ".", "0", "1", ".", "2", "0", "2", "4", "\n">>,
    <<"M", "w", "S", "t", ".", " ", "1", "9", "%", " ", "1", "4", ",", "0", "1", " ", "€", "\n">>,
    <<"M", "w", "S", "t", ".", " ", "1", "9", "%", " ", "1", ",", "4", ",", "0", "1", " ", "€", "\n">>,
    <<"G", "e", "s", "a", "m", "t", " ", "1", "0", "1", ",", "5", "1", " ", "€", "\n">>,
    <<"T", "o", "t", "a", "l", " ", "1", ",", "2", "3", "4", ",", "5", "6", "\n">>,
    <<"Z", "a", "h", "l", "u", "n", "g", ":", " ", "E", "C", "-", "K", "a", "r", "t", "e", "\n">>,
    <<"S", "u", "m", "m", "e", ":", "\n", "1", "2", ",", "5", "0", "\n">>,
    <<"T", "o", "t", "a", "l", ":", " ", "2", "0", ".", "0", "0", "\n">>,
    <<"M", "w", "S", "t", ".", " ", "7", "%", "\n">>,
    <<"D", "a", "t", "u", "m", ":", " ", "1", "5", "/", "0", "1", "/", "2", "0", "2", "4", "\n">>,
    <<"D", "a", "t", "u", "m", ":", " ", "1", "5", ".", "0", "1", ".", "2", "4", "\n">>,
    <<"D", "a", "t", "u", "m", ":", " ", "1", "5", "/", "0", "1", "/", "2", "4", "\n">>,
    <<"D", "a", "t", "u", "m", ":", " ", "1", "5", ".", "0", "1", "/", "2", "0", "2", "4", "\n">>,
    <<"D", "a", "t", "u", "m", ":", " ", "3", "1", ".", "0", "2", ".", "2", "0", "2", "4", "\n">>,
    <<"B", "a", "r", "g", "e", "l", "d", "\n">>,
    <<"Ü", "b", "e", "r", "w", "e", "i", "s", "u", "n", "g", "\n">>,
    <<"P", "a", "y", "P", "a", "l", "\n">>>>

FieldTexts == TextsOf(FieldFragments)

InitFields ==
  /\ task = EmptyDict
  /\ receipt_parser = ReceiptParsingService
  /\ db = EmptyDb
  /\ unit \in {[fn |-> "_parse_text_to_fields", args |-> <<Some(t)>>, out |-> None] : t \in FieldTexts}

ParseTextToFieldsCall ==
  /\ unit.fn = "_parse_text_to_fields"
  /\ unit.out = None
  /\ unit' = [unit EXCEPT !.out = Some(parse_text_to_fields(unit.args[1]))]
  /\ UNCHANGED <<task, receipt_parser, db>>

NextFields == ParseTextToFieldsCall

SpecFields == InitFields /\ [][NextFields]_vars

(* C13: _parse_text_to_fields never raises for an input string: when the  *)
(* token matched for amount or vat is not a number, only that field is    *)
(* left out and the other fields are extracted and returned.              *)
C13_FieldsNeverRaise ==
  Called("_parse_text_to_fields") =>
    LET ocr_text == unit.args[1][1]
    IN /\ Returned(Outcome)
       /\ "currency" \in DOMAIN Outcome.value
       /\ ExtractMerchant(ocr_text) # None => "merchant" \in DOMAIN Outcome.value
       /\ ExtractDate(Lower(ocr_text)) # None => "date" \in DOMAIN Outcome.value
       /\ InvoiceSearch(Lower(ocr_text)) # None => "invoice_number" \in DOMAIN Outcome.value
       /\ ExtractPayment(Lower(ocr_text)) # None => "payment_method" \in DOMAIN Outcome.value

(* C15: for a text with the line "Rechnung Nr: 2024-001234" and no earlier *)
(* invoice label, and whose numbers convert, _parse_text_to_fields returns *)
(* invoice_number "2024-001234".                                           *)
C15_InvoiceNumberToken ==
  Called("_parse_text_to_fields") =>
    LET ocr_text == unit.args[1][1]
        lines == Split(ocr_text, "\n")
        labelled == {i \in 1..Len(lines) :
                       \E k \in 1..Len(invoice_labels) : Contains(Lower(lines[i]), invoice_labels[k])}
    IN (/\ Returned(Outcome)
        /\ labelled # {}
        /\ lines[Min(labelled)] = <<"R", "e", "c", "h", "n", "u", "n", "g", " ", "N", "r", ":", " ", "2", "0", "2", "4", "-", "0", "0", "1", "2", "3", "4">>)
         => /\ "invoice_number" \in DOMAIN Outcome.value
            /\ Outcome.value["invoice_number"] = <<"2", "0", "2", "4", "-", "0", "0", "1", "2", "3", "4">>

(* 1 if the condition holds, else 0. *)
Indicator(b) == IF b THEN 1 ELSE 0

(* C14: _calculate_confidence(fieldMap, rawText) is the minimum of 100 and *)
(* B + 25 [amount present] + 20 [merchant present] + 15 [date present]     *)
(* + 10 [vat present] + 5 [len(rawText) > 100] + 5 [rawText holds a        *)
(* price], B being 30 for a map with a key and 0 for the empty map; a      *)
(* field is present when its key is in the map, whatever its value.        *)
C14_ConfidenceFormula ==
  Called("_calculate_confidence") =>
    LET d == unit.args[1]
        t == unit.args[2]
        sum == 30 * Indicator(DOMAIN d # {})
                 + 25 * Indicator("amount" \in DOMAIN d)
                 + 20 * Indicator("merchant" \in DOMAIN d)
                 + 15 * Indicator("date" \in DOMAIN d)
                 + 10 * Indicator("vat" \in DOMAIN d)
                 + 5 * Indicator(Len(t) > 100)
                 + 5 * Indicator(PriceSearch(t))
    IN /\ Returned(Outcome)
       /\ Outcome.value = Min({100, sum})

(***************************************************************************)
(* Properties of calls on the shared instance (SpecConcurrent, Spec).      *)
(***************************************************************************)
(* The call has acquired its text. *)
HasText(c) == "ocr_text" \in DOMAIN task[c].frame /\ task[c].frame["ocr_text"] # None

(* C16: the pipeline has no hidden state: the instance keeps the          *)
(* attributes of its construction, and whatever calls came before, two    *)
(* calls on identical text hold identical field maps, categories and      *)
(* scores.                                                                *)
C16_NoHiddenState ==
  /\ receipt_parser = ReceiptParsingService
  /\ \A c1, c2 \in Calls :
       (HasText(c1) /\ HasText(c2) /\ task[c1].frame["ocr_text"] = task[c2].frame["ocr_text"]) =>
         LET f1 == task[c1].frame
             f2 == task[c2].frame
         IN /\ \A k \in {"category", "confidence"} :
                 (k \in DOMAIN f1 /\ k \in DOMAIN f2) => f1[k] = f2[k]
            /\ ("parsed_data" \in DOMAIN f1 /\ "parsed_data" \in DOMAIN f2
                  /\ ("category" \in DOMAIN f1) = ("category" \in DOMAIN f2))
                 => f1["parsed_data"] = f2["parsed_data"]

(* Two calls hold a score for the same non-empty text, one of them made *)
(* while the other was in flight.                                       *)
C16_Witness ==
  /\ HasText(1) /\ HasText(2)
  /\ task[1].frame["ocr_text"] = task[2].frame["ocr_text"]
  /\ task[1].frame["ocr_text"] # Some(<<>>)
  /\ task[1].pc = "done" /\ task[2].pc = "build"
  /\ "confidence" \in DOMAIN task[1].frame

(* The result of the call of record t when it runs alone: the steps in *)
(* order, the first exception ending the call with the failure result. *)
SoloBuild(t, text, merged, confidence) ==
  LET kwargs == Put(Put(merged, "parsing_confidence", confidence), "ocr_text", text)
      o == StepOutcome(t, "build", Return(ReceiptParsed(kwargs)))
  IN IF Raised(o) THEN FailureResult(o.msg) ELSE o.value

SoloScore(t, text, merged) ==
  LET o == StepOutcome(t, "score", Return(calculate_confidence(merged, text)))
  IN IF Raised(o) THEN FailureResult(o.msg) ELSE SoloBuild(t, text, merged, o.value)

SoloCategorize(t, text, parsed) ==
  LET o == StepOutcome(t, "categorize", Return(auto_categorize(parsed, text)))
  IN IF Raised(o) THEN FailureResult(o.msg)
     ELSE SoloScore(t, text, Put(parsed, "category", o.value))

SoloParse(t, ocr) ==
  LET o == StepOutcome(t, "parse", parse_text_to_fields(ocr))
  IN IF Raised(o) THEN FailureResult(o.msg) ELSE SoloCategorize(t, ocr[1], o.value)

RunAlone(t) ==
  LET o == IF t.ocr.kind = "source" THEN extract_text_ocr(t.file_path[1], t.mime_type[1])
           ELSE IF t.ocr.kind = "returns" THEN Return(t.ocr.value)
           ELSE Raise("Exception", t.ocr.msg)
  IN IF Raised(o) THEN FailureResult(o.msg) ELSE SoloParse(t, o.value)

(* C17: concurrent calls on the shared instance do not interfere: under *)
(* every interleaving each call returns the result it returns when run  *)
(* alone, and no call leaves anything on the shared instance.           *)
C17_NoInterference ==
  /\ receipt_parser = ReceiptParsingService
  /\ \A c \in Calls : Done(c) => task[c].result = Some(RunAlone(task[c]))

(* One call has returned a scored result while another, on another text, *)
(* is between two of its steps.                                          *)
C17_Witness ==
  \E c1, c2 \in Calls :
    /\ Done(c1) /\ ~Failed(c1)
    /\ task[c2].pc \in {"parse", "categorize", "score"}
    /\ task[c2].frame["ocr_text"] # task[c1].frame["ocr_text"]
    /\ Result(c1)["parsing_confidence"] = Some(50)

PipelineSteps == <<"extract", "parse", "categorize", "score", "build">>

IsPrefix(s, t) == Len(s) <= Len(t) /\ \A i \in 1..Len(s) : s[i] = t[i]

(* C18: within one call text acquisition runs exactly once and first,   *)
(* then field extraction, categorization, scoring, each at most once    *)
(* and in that order, the category being in the field map when the      *)
(* score is taken; once a step has failed no further step runs and the  *)
(* call ends with the failure result.                                   *)
C18_StepsOnceInOrder ==
  \A c \in Calls :
    /\ IsPrefix(task[c].steps, PipelineSteps)
    /\ task[c].pc \notin {"idle", "extract"} => Len(task[c].steps) >= 1
    /\ (Done(c) /\ ~Failed(c)) => task[c].steps = PipelineSteps
    /\ "confidence" \in DOMAIN task[c].frame =>
         /\ "category" \in DOMAIN task[c].frame["parsed_data"]
         /\ task[c].frame["parsed_data"]["category"] = task[c].frame["category"]
    /\ Failed(c) =>
         /\ Done(c)
         /\ IsFailureSignal(Result(c))
         /\ task[c].steps[Len(task[c].steps)] =
              PipelineSteps[Len(task[c].steps)]

(* A call whose field extraction raised by itself: two steps ran, then *)
(* the failure result.                                                 *)
C18_Witness ==
  \E c \in Calls :
    /\ Done(c) /\ Failed(c)
    /\ task[c].steps = <<"extract", "parse">>
    /\ task[c].raised[1].type = "ValueError"
    /\ IsFailureSignal(Result(c))

(***************************************************************************)
(* Requests to the travel endpoints (api/v1/endpoints.py).  A request is   *)
(* handled in one step; unit holds the last request, the user who sent it  *)
(* first among its arguments, and its response.                            *)
(***************************************************************************)
(* raise HTTPException(status_code=..., detail=...) *)
HTTPException(status_code, detail) ==
  [kind |-> "raise", type |-> "HTTPException", msg |-> detail, status_code |-> status_code]

UserRole == {"employee", "controller", "admin"}

TravelStatus == {"draft", "submitted", "approved", "rejected"}

(* The users: an admin, a controller, an employee assigned to the *)
(* controller and an employee without a controller.               *)
Users ==
  [id \in {1, 2, 3, 5} |->
     [id |-> id,
      role |-> CASE id = 1 -> "admin" [] id = 2 -> "controller" [] OTHER -> "employee",
      controller_id |-> IF id = 3 THEN Some(2) ELSE None]]

(* The travel ids of the requests; no travel has the last one. *)
TravelIds == {1, 2, 3}

(* Two travels, one of each employee, a draft and a submitted one. *)
Travels ==
  [id \in {1, 2} |->
     [id |-> id, employee_id |-> Some(IF id = 1 THEN 3 ELSE 5),
      status |-> IF id = 1 THEN "draft" ELSE "submitted"]]

(* crud_travel.get(db, id): the row, or None. *)
crud_travel_get(d, id) == IF id \in DOMAIN d.travels THEN Some(d.travels[id]) ELSE None

(* The rows after travel.status = status; db.add(travel); db.commit(). *)
SetStatus(d, id, status) == [d EXCEPT !.travels[id].status = status]

(* The request fn(args) was answered with out. *)
Request(fn, args, out) == [fn |-> fn, args |-> args, out |-> Some(out)]

(* PUT /{travel_id}/approve: the handler takes no current user. *)
ApproveTravel ==
  \E user \in DOMAIN db.users, travel_id \in TravelIds :
    LET travel == crud_travel_get(db, travel_id)
    IN /\ IF travel = None
          THEN /\ unit' = Request("approve_travel", <<user, travel_id>>,
                                  HTTPException(404, "Travel not found"))
               /\ db' = db
          ELSE /\ db' = SetStatus(db, travel_id, "approved")
               /\ unit' = Request("approve_travel", <<user, travel_id>>,
                                  Return(db'.travels[travel_id]))
       /\ UNCHANGED <<task, receipt_parser>>

(* PUT /{travel_id}/reject: the handler takes no current user. *)
RejectTravel ==
  \E user \in DOMAIN db.users, travel_id \in TravelIds :
    LET travel == crud_travel_get(db, travel_id)
    IN /\ IF travel = None
          THEN /\ unit' = Request("reject_travel", <<user, travel_id>>,
                                  HTTPException(404, "Travel not found"))
               /\ db' = db
          ELSE /\ db' = SetStatus(db, travel_id, "rejected")
               /\ unit' = Request("reject_travel", <<user, travel_id>>,
                                  Return(db'.travels[travel_id]))
       /\ UNCHANGED <<task, receipt_parser>>

(* PUT /{travel_id} with a TravelStatusUpdate: no current user either. *)
UpdateTravel ==
  \E user \in DOMAIN db.users, travel_id \in TravelIds, status \in TravelStatus :
    LET travel == crud_travel_get(db, travel_id)
    IN /\ IF travel = None
          THEN /\ unit' = Request("update_travel", <<user, travel_id, status>>,
                                  HTTPException(404, "Travel not found"))
               /\ db' = db
          ELSE /\ db' = SetStatus(db, travel_id, status)
               /\ unit' = Request("update_travel", <<user, travel_id, status>>,
                                  Return(db'.travels[travel_id]))
       /\ UNCHANGED <<task, receipt_parser>>

(* POST /{travel_id}/submit: an employee submits only travels of their own. *)
SubmitExistingTravel ==
  \E user \in DOMAIN db.users, travel_id \in TravelIds :
    LET travel == crud_travel_get(db, travel_id)
        current_user == db.users[user]
    IN /\ IF travel = None
          THEN /\ unit' = Request("submit_existing_travel", <<user, travel_id>>,
                                  HTTPException(404, "Travel not found"))
               /\ db' = db
          ELSE IF current_user.role = "employee" /\ travel[1].employee_id # Some(current_user.id)
          THEN /\ unit' = Request("submit_existing_travel", <<user, travel_id>>,
                                  HTTPException(403, "Access denied"))
               /\ db' = db
          ELSE /\ db' = SetStatus(db, travel_id, "submitted")
               /\ unit' = Request("submit_existing_travel", <<user, travel_id>>,
                                  Return(db'.travels[travel_id]))
       /\ UNCHANGED <<task, receipt_parser>>

InitTravels ==
  /\ task = EmptyDict
  /\ unit = NoUnit
  /\ receipt_parser = ReceiptParsingService
  /\ db = [users |-> Users, travels |-> Travels, receipts |-> <<>>]

NextTravels ==
  \/ ApproveTravel
  \/ RejectTravel
  \/ UpdateTravel
  \/ SubmitExistingTravel

SpecTravels == InitTravels /\ [][NextTravels]_vars

(* C20: a request of an employee to approve_travel, reject_travel or the *)
(* status update_travel is refused with 403 or 404 and leaves every      *)
(* travel as it was, so no sequence of requests of employees alone       *)
(* brings a travel to approved or rejected.                              *)
C20_EmployeesCannotDecide ==
  [][(/\ unit'.fn \in {"approve_travel", "reject_travel", "update_travel"}
      /\ db.users[unit'.args[1]].role = "employee")
       => (/\ Raised(unit'.out[1])
           /\ unit'.out[1].status_code \in {403, 404}
           /\ db'.travels = db.travels)]_vars

(***************************************************************************)
(* upload_receipt (POST /{travel_id}/receipts): the handler checks the     *)
(* request, saves the file, awaits receipt_parser.parse_receipt_file and   *)
(* stores a receipt row.  unit holds the request while it is in flight.    *)
(***************************************************************************)
(* Stored receipts of the model; an upload needs room for its row. *)
MaxReceipts == 1

allowed_types == {"application/pdf", "image/jpeg", "image/png", "image/jpg"}

(* The content types of the uploaded files. *)
ContentTypes == {"image/jpeg", "text/plain"}

(* What text acquisition does during an upload: the code as it stands, or *)
(* an OCR engine returning a merchant line, an unconvertible total or     *)
(* None.                                                                  *)
UploadOcrBehaviours ==
  {[kind |-> "source"],
   [kind |-> "returns", value |-> Some(Fragments[1])],
   [kind |-> "returns", value |-> Some(Fragments[3])],
   [kind |-> "returns", value |-> None]}

(* crud_user.get(db, id): the row, or None. *)
crud_user_get(d, id) == IF id \in DOMAIN d.users THEN Some(d.users[id]) ELSE None

(* _user_can_access_travel(db, user, travel) *)
user_can_access_travel(d, user, travel) ==
  IF user.role = "admin" THEN TRUE
  ELSE IF user.role = "employee" THEN travel.employee_id = Some(user.id)
  ELSE IF user.role = "controller" /\ travel.employee_id # None
  THEN LET employee == crud_user_get(d, travel.employee_id[1])
       IN employee # None /\ employee[1].controller_id = Some(user.id)
  ELSE FALSE

(* parsing_status of a returned ReceiptParsed. *)
parsing_status_of(parsed_data) ==
  IF parsed_data["parsing_confidence"][1] > 50 THEN "success" ELSE "low_confidence"

(* The fields of the parse result copied to the receipt row. *)
ParsedColumns ==
  {"amount", "vat", "vat_rate", "merchant", "category", "date", "invoice_number",
   "payment_method", "merchant_address", "merchant_tax_id", "parsing_confidence", "ocr_text"}

(* Receipt(receipt_kwargs): o is the outcome of the awaited parse, the *)
(* returned ReceiptParsed or the Exception caught at line 236.        *)
ReceiptRow(id, travel_id, file_path, mime_type, o) ==
  [k \in ParsedColumns |-> IF Returned(o) THEN o.value[k] ELSE None]
    @@ [id |-> id, travel_id |-> travel_id, file_path |-> file_path, mime_type |-> mime_type,
        currency |-> EUR,
        parsing_status |-> IF Returned(o) THEN parsing_status_of(o.value) ELSE "failed",
        parsed_at |-> IF Returned(o) THEN Some("utcnow") ELSE None,
        created_at |-> Some("utcnow")]

(* The request arrives: 404, 403 or 400, or the file is saved and the *)
(* parse begins.                                                      *)
UploadReceipt(c) ==
  /\ task[c].pc = "idle"
  /\ Len(db.receipts) < MaxReceipts
  /\ \E user \in DOMAIN db.users, travel_id \in TravelIds, content_type \in ContentTypes,
        ob \in UploadOcrBehaviours :
       LET travel == crud_travel_get(db, travel_id)
           args == <<user, travel_id, content_type>>
           file_path == [name |-> <<"uploads", travel_id, "receipt.jpg">>, exists |-> TRUE]
       IN IF travel = None
          THEN /\ unit' = Request("upload_receipt", args, HTTPException(404, "Travel not found"))
               /\ task' = task
          ELSE IF ~user_can_access_travel(db, db.users[user], travel[1])
          THEN /\ unit' = Request("upload_receipt", args, HTTPException(403, "Access denied"))
               /\ task' = task
          ELSE IF content_type \notin allowed_types
          THEN /\ unit' = Request("upload_receipt", args,
                                  HTTPException(400, "Invalid file type. Only PDF and image files are allowed."))
               /\ task' = task
          ELSE /\ unit' = [fn |-> "upload_receipt", args |-> args, out |-> None]
               /\ task' = [task EXCEPT ![c] =
                             [IdleTask EXCEPT !.pc = "extract", !.file_path = Some(file_path),
                                              !.mime_type = Some(content_type), !.ocr = ob]]
  /\ UNCHANGED <<receipt_parser, db>>

(* parse_receipt_file has returned, or an Exception has left it: the row *)
(* is built, added and committed, and the request is answered with it.   *)
(* Anything else than an Exception leaves the handler too.               *)
StoreReceipt(c) ==
  /\ task[c].pc \in {"done", "propagated"}
  /\ unit.fn = "upload_receipt" /\ unit.out = None
  /\ LET o == IF task[c].pc = "done" THEN Return(task[c].result[1]) ELSE task[c].raised[1]
         receipt == ReceiptRow(Len(db.receipts) + 1, unit.args[2], task[c].file_path[1],
                               unit.args[3], o)
     IN IF Raised(o) /\ o.type \notin ExceptionSubclasses
        THEN /\ db' = db
             /\ unit' = [unit EXCEPT !.out = Some(o)]
        ELSE /\ db' = [db EXCEPT !.receipts = Append(@, receipt)]
             /\ unit' = [unit EXCEPT !.out = Some(Return(receipt))]
  /\ task' = [task EXCEPT ![c] = IdleTask]
  /\ UNCHANGED receipt_parser

InitUpload ==
  /\ task = [c \in {1} |-> IdleTask]
  /\ unit = NoUnit
  /\ receipt_parser = ReceiptParsingService
  /\ db = [users |-> Users, travels |-> Travels, receipts |-> <<>>]

NextUpload ==
  \/ \E c \in DOMAIN task : UploadReceipt(c)
  \/ \E c \in DOMAIN task : ExtractTextOcr(c)
  \/ \E c \in DOMAIN task : ParseTextToFields(c)
  \/ \E c \in DOMAIN task : AutoCategorize(c)
  \/ \E c \in DOMAIN task : CalculateConfidence(c)
  \/ \E c \in DOMAIN task : BuildResult(c)
  \/ \E c \in DOMAIN task : StoreReceipt(c)

SpecUpload == InitUpload /\ [][NextUpload]_vars

MaxTravels == 1

(* The points of the time line a request may name. *)
Times == {1, 2}

(* The timeline fields of TravelBase, in the order the validator reads them. *)
timeline_fields ==
  <<"departure_timestamp", "arrival_at_destination_timestamp",
    "departure_from_destination_timestamp", "arrival_home_timestamp">>

(* The name the validator appends with each timeline field. *)
timeline_names ==
  <<"departure", "arrival_at_destination", "departure_from_destination", "arrival_home">>

(* Who sends the requests: the admin and an employee. *)
Senders == {1, 3}

(* A body with the required fields alone: status and employee_id take *)
(* their defaults, draft and None.                                    *)
PlainTravelCreate ==
  [employee_id |-> None, status |-> "draft", start_at |-> 1, end_at |-> 2,
   departure_timestamp |-> None, arrival_at_destination_timestamp |-> None,
   departure_from_destination_timestamp |-> None, arrival_home_timestamp |-> None]

(* The request bodies: the plain body with a status and an employee_id *)
(* of the sender's choice, or with dates and timeline timestamps.      *)
TravelCreates ==
  {[PlainTravelCreate EXCEPT !.status = s, !.employee_id = e] :
     s \in TravelStatus, e \in Optional({3})}
    \cup [employee_id : {None}, status : {"draft"}, start_at : Times, end_at : Times,
          departure_timestamp : Optional(Times),
          arrival_at_destination_timestamp : Optional(Times),
          departure_from_destination_timestamp : Optional(Times),
          arrival_home_timestamp : Optional(Times)]

(* The (name, timestamp) pairs appended for the provided fields from i on. *)
RECURSIVE TimestampsFrom(_, _)
TimestampsFrom(self, i) ==
  IF i > Len(timeline_fields) THEN <<>>
  ELSE (IF self[timeline_fields[i]] # None
        THEN <<<<timeline_names[i], self[timeline_fields[i]][1]>>>>
        ELSE <<>>) \o TimestampsFrom(self, i + 1)

(* x put into the sorted list s behind every entry whose key is not greater. *)
RECURSIVE InsertByTimestamp(_, _)
InsertByTimestamp(s, x) ==
  IF s = <<>> THEN <<x>>
  ELSE IF x[2] < Head(s)[2] THEN <<x>> \o s
  ELSE <<Head(s)>> \o InsertByTimestamp(Tail(s), x)

(* timestamps.sort(key=lambda x: x[1]): a stable sort by the timestamp. *)
RECURSIVE SortByTimestamp(_)
SortByTimestamp(s) ==
  IF s = <<>> THEN <<>>
  ELSE InsertByTimestamp(SortByTimestamp(SubSeq(s, 1, Len(s) - 1)), s[Len(s)])

(* TravelCreate.validate_travel_timeline: the body, or the ValueError. *)
validate_travel_timeline(self) ==
  LET timestamps == SortByTimestamp(TimestampsFrom(self, 1))
      bad == {i \in 1..(Len(timestamps) - 1) : timestamps[i][2] >= timestamps[i + 1][2]}
  IN IF self.end_at <= self.start_at
     THEN Raise("ValueError", "End date must be after start date")
     ELSE IF bad # {}
     THEN Raise("ValueError", "Travel timeline error: " \o timestamps[Min(bad)][1]
                                \o " must be before " \o timestamps[Min(bad) + 1][1])
     ELSE IF /\ self.arrival_at_destination_timestamp # None
             /\ self.departure_from_destination_timestamp # None
             /\ self.arrival_at_destination_timestamp[1]
                  >= self.departure_from_destination_timestamp[1]
     THEN Raise("ValueError", "Arrival at destination must be before departure from destination")
     ELSE Return(self)

(* The answer of FastAPI to a body whose validator raised. *)
RequestValidationError(e) ==
  [kind |-> "raise", type |-> "RequestValidationError", msg |-> e.msg, status_code |-> 422]

(* The id the table gives the next row. *)
NextTravelId(d) == Cardinality(DOMAIN d.travels) + 1

(* crud_travel.create: a Travel row of obj_in.model_dump(), added and *)
(* committed.                                                         *)
crud_travel_create(d, obj_in) ==
  [d EXCEPT !.travels = Put(@, NextTravelId(d), [id |-> NextTravelId(d)] @@ obj_in)]

(* if current_user.role == UserRole.employee: travel_in.employee_id = current_user.id *)
OwnTravel(current_user, travel_in) ==
  IF current_user.role = "employee"
  THEN [travel_in EXCEPT !.employee_id = Some(current_user.id)]
  ELSE travel_in

(* POST /: create_travel. *)
CreateTravel ==
  /\ Cardinality(DOMAIN db.travels) < MaxTravels
  /\ \E user \in Senders, body \in TravelCreates :
       LET v == validate_travel_timeline(body)
           id == NextTravelId(db)
       IN IF Raised(v)
          THEN /\ unit' = Request("create_travel", <<user, body>>, RequestValidationError(v))
               /\ db' = db
          ELSE /\ db' = crud_travel_create(db, OwnTravel(db.users[user], v.value))
               /\ unit' = Request("create_travel", <<user, body>>, Return(db'.travels[id]))
  /\ UNCHANGED <<task, receipt_parser>>

(* POST /submit: submit_travel creates the travel and submits it. *)
SubmitTravel ==
  /\ Cardinality(DOMAIN db.travels) < MaxTravels
  /\ \E user \in Senders, body \in TravelCreates :
       LET v == validate_travel_timeline(body)
           id == NextTravelId(db)
       IN IF Raised(v)
          THEN /\ unit' = Request("submit_travel", <<user, body>>, RequestValidationError(v))
               /\ db' = db
          ELSE /\ db' = SetStatus(crud_travel_create(db, OwnTravel(db.users[user], v.value)),
                                  id, "submitted")
               /\ unit' = Request("submit_travel", <<user, body>>, Return(db'.travels[id]))
  /\ UNCHANGED <<task, receipt_parser>>

InitCreate ==
  /\ task = EmptyDict
  /\ unit = NoUnit
  /\ receipt_parser = ReceiptParsingService
  /\ db = [users |-> Users, travels |-> EmptyDict, receipts |-> <<>>]

NextCreate ==
  \/ CreateTravel
  \/ SubmitTravel

SpecCreate == InitCreate /\ [][NextCreate]_vars

(* C21: every travel created through create_travel has status draft *)
(* immediately after creation, whatever the request body contains.  *)
C21_CreatedAsDraft ==
  (unit.fn = "create_travel" /\ Returned(unit.out[1]))
    => unit.out[1].value.status = "draft"

(* The timestamps of the provided timeline fields of a row, in field order. *)
ProvidedTimeline(travel) ==
  LET pairs == TimestampsFrom(travel, 1)
  IN [i \in 1..Len(pairs) |-> pairs[i][2]]

(* C28: TravelCreate validation rejects every body whose end_at is not *)
(* after start_at or whose provided timeline timestamps are not        *)
(* strictly increasing in the order departure, arrival at destination, *)
(* departure from destination, arrival home; so no travel created by   *)
(* create_travel or submit_travel has an out-of-order timeline.        *)
C28_TimelineInOrder ==
  \A id \in DOMAIN db.travels :
    LET travel == db.travels[id]
        timeline == ProvidedTimeline(travel)
    IN /\ travel.end_at > travel.start_at
       /\ \A i \in 1..(Len(timeline) - 1) : timeline[i] < timeline[i + 1]

(***************************************************************************)
(* Reading a travel (GET /{travel_id}) while an admin assigns employees to *)
(* controllers.  The sender of a request is named by the id of its token;  *)
(* get_current_user builds the user of a demo id from its role map.        *)
(***************************************************************************)
(* role_map of get_current_user, for the ids the requests carry. *)
role_map ==
  [id \in {1, 2, 3, 5, 7} |->
     CASE id = 1 -> "admin" [] id \in {2, 7} -> "controller" [] OTHER -> "employee"]

(* The ids in the tokens of the requests: demo users all. *)
TokenIds == DOMAIN role_map

(* get_current_user for a demo id: a mock user carrying the id and the role. *)
get_current_user(user_id) ==
  [id |-> user_id, role |-> role_map[user_id], controller_id |-> None]

(* The users of the table: those of Users and a second controller. *)
DemoUsers ==
  [id \in {1, 2, 3, 5, 7} |->
     IF id \in DOMAIN Users THEN Users[id]
     ELSE [id |-> id, role |-> role_map[id], controller_id |-> None]]

(* Variant: every employee, whoever the controller is. *)
get_all_employees(d, controller_id) ==
  {id \in DOMAIN d.users : d.users[id].role = "employee"}

(* crud_user.get_employees_by_controller: the ids of the rows found. *)
get_employees_by_controller(d, controller_id) ==
  {id \in DOMAIN d.users :
     d.users[id].controller_id = Some(controller_id) /\ d.users[id].role = "employee"}

(* GET /{travel_id}: get_travel_by_id. *)
GetTravelById ==
  \E user \in TokenIds, travel_id \in TravelIds :
    LET travel == crud_travel_get(db, travel_id)
        current_user == get_current_user(user)
        employee_ids == get_employees_by_controller(db, current_user.id)
        denied ==
          IF current_user.role = "employee" THEN travel[1].employee_id # Some(current_user.id)
          ELSE IF current_user.role = "controller"
          THEN ~(\E id \in employee_ids : travel[1].employee_id = Some(id))
          ELSE FALSE
    IN /\ unit' = Request("get_travel_by_id", <<user, travel_id>>,
                          IF travel = None THEN HTTPException(404, "Travel not found")
                          ELSE IF denied THEN HTTPException(403, "Access denied")
                          ELSE Return(travel[1]))
       /\ UNCHANGED <<task, receipt_parser, db>>

(* crud_user.assign_controller: the outcome and the rows afterwards. *)
assign_controller(d, employee_id, controller_id) ==
  LET employee == crud_user_get(d, employee_id)
      controller == crud_user_get(d, controller_id[1])
      unchanged(e) == [out |-> e, db |-> d]
      after == [d EXCEPT !.users[employee_id].controller_id = controller_id]
  IN IF employee = None
     THEN unchanged(Raise("ValueError",
                          "Employee with id " \o ToString(employee_id) \o " not found"))
     ELSE IF employee[1].role # "employee"
     THEN unchanged(Raise("ValueError", "User " \o ToString(employee_id) \o " is not an employee"))
     ELSE IF controller_id # None /\ controller = None
     THEN unchanged(Raise("ValueError",
                          "Controller with id " \o ToString(controller_id[1]) \o " not found"))
     ELSE IF controller_id # None /\ controller[1].role # "controller"
     THEN unchanged(Raise("ValueError",
                          "User " \o ToString(controller_id[1]) \o " is not a controller"))
     ELSE [out |-> Return(after.users[employee_id]), db |-> after]

(* get_current_admin_user: the refusal of a sender who is no admin. *)
AdminRequired == HTTPException(403, "Admin access required")

(* PUT /assign-employee/{employee_id}/to-controller/{controller_id} of *)
(* api/v1/admin.py.                                                    *)
AssignEmployeeToController ==
  \E user \in TokenIds, employee_id \in TokenIds, controller_id \in TokenIds :
    LET args == <<user, employee_id, controller_id>>
        employee == crud_user_get(db, employee_id)
        controller == crud_user_get(db, controller_id)
        r == assign_controller(db, employee_id, Some(controller_id))
    IN /\ IF get_current_user(user).role # "admin"
          THEN /\ unit' = Request("assign_employee_to_controller", args, AdminRequired)
               /\ db' = db
          ELSE IF employee = None \/ employee[1].role # "employee"
          THEN /\ unit' = Request("assign_employee_to_controller", args,
                                  HTTPException(404, "Employee not found"))
               /\ db' = db
          ELSE IF controller = None \/ controller[1].role # "controller"
          THEN /\ unit' = Request("assign_employee_to_controller", args,
                                  HTTPException(404, "Controller not found"))
               /\ db' = db
          ELSE /\ db' = r.db
               /\ unit' = Request("assign_employee_to_controller", args,
                                  IF Raised(r.out) THEN HTTPException(400, r.out.msg)
                                  ELSE Return([message |-> "assigned"]))
       /\ UNCHANGED <<task, receipt_parser>>

(* PUT /unassign-employee/{employee_id} of api/v1/admin.py. *)
UnassignEmployee ==
  \E user \in TokenIds, employee_id \in TokenIds :
    LET args == <<user, employee_id>>
        employee == crud_user_get(db, employee_id)
        r == assign_controller(db, employee_id, None)
    IN /\ IF get_current_user(user).role # "admin"
          THEN /\ unit' = Request("unassign_employee", args, AdminRequired)
               /\ db' = db
          ELSE IF employee = None \/ employee[1].role # "employee"
          THEN /\ unit' = Request("unassign_employee", args,
                                  HTTPException(404, "Employee not found"))
               /\ db' = db
          ELSE /\ db' = r.db
               /\ unit' = Request("unassign_employee", args,
                                  IF Raised(r.out) THEN HTTPException(400, r.out.msg)
                                  ELSE Return([message |-> "unassigned"]))
       /\ UNCHANGED <<task, receipt_parser>>

InitAccess ==
  /\ task = EmptyDict
  /\ unit = NoUnit
  /\ receipt_parser = ReceiptParsingService
  /\ db = [users |-> DemoUsers, travels |-> Travels, receipts |-> <<>>]

NextAccess ==
  \/ GetTravelById
  \/ AssignEmployeeToController
  \/ UnassignEmployee

SpecAccess == InitAccess /\ [][NextAccess]_vars

(* The travel's employee is at present assigned to the controller. *)
AssignedTo(travel, controller_id) ==
  /\ travel.employee_id # None
  /\ travel.employee_id[1] \in DOMAIN db.users
  /\ db.users[travel.employee_id[1]].controller_id = Some(controller_id)

(* The claim's condition for handing the travel to the sender. *)
MayRead(user, travel) ==
  \/ role_map[user] = "admin"
  \/ role_map[user] = "employee" /\ travel.employee_id = Some(user)
  \/ role_map[user] = "controller" /\ AssignedTo(travel, user)

(* C22: get_travel_by_id returns a travel to an employee only if it is *)
(* their own, to a controller only if the travel's employee is at      *)
(* present assigned to that controller, and to an admin always; in     *)
(* every other case it answers 403 (404 when the travel does not       *)
(* exist) and returns no travel data, whatever assign and unassign     *)
(* operations came before.                                             *)
C22_TravelReadAccess ==
  unit.fn = "get_travel_by_id" =>
    LET user == unit.args[1]
        travel_id == unit.args[2]
        out == unit.out[1]
    IN IF travel_id \notin DOMAIN db.travels
       THEN Raised(out) /\ out.status_code = 404
       ELSE IF MayRead(user, db.travels[travel_id])
       THEN (role_map[user] = "admin" => Returned(out))
            /\ (Returned(out) => out.value = db.travels[travel_id])
            /\ (Raised(out) => out.status_code = 403)
       ELSE Raised(out) /\ out.status_code = 403

(* The second controller reads travel 1 after its employee was moved *)
(* to them.                                                         *)
C22_Witness ==
  /\ unit.fn = "get_travel_by_id" /\ unit.args = <<7, 1>>
  /\ Returned(unit.out[1])
  /\ db.users[3].controller_id = Some(7)

(* Colons and the whitespace that stays within a line. *)
ColonBlank == {":", " ", "\t"}

(* A label at i of s followed, across colons and blanks of the same line, *)
(* by a decimal number: the number, or None.                              *)
SameLineAmountAt(s, i) ==
  LET alts == {a \in 1..Len(amount_labels) :
                 /\ MatchAt(s, i, amount_labels[a])
                 /\ PriceEnd(s, SkipClass(s, i + Len(amount_labels[a]), ColonBlank)) # 0}
  IN IF alts = {} THEN None
     ELSE LET p == SkipClass(s, i + Len(amount_labels[Min(alts)]), ColonBlank)
          IN Some(SubSeq(s, p, PriceEnd(s, p)))

(* The number of the leftmost such label of s, or None. *)
SameLineAmount(s) ==
  LET hits == {i \in 1..Len(s) : SameLineAmountAt(s, i) # None}
  IN IF hits = {} THEN None ELSE SameLineAmountAt(s, Min(hits))

(* C23: the amount of a returned field map is the number of the leftmost *)
(* label gesamt, total or summe that is followed on the same line,       *)
(* across only colons and whitespace, by a decimal number, with a comma  *)
(* read as the decimal point; a label whose number stands on a following *)
(* line yields no amount.                                                *)
C23_AmountOnLabelLine ==
  (Called("_parse_text_to_fields") /\ Returned(Outcome)) =>
    LET expected == SameLineAmount(Lower(unit.args[1][1]))
    IN IF expected = None THEN "amount" \notin DOMAIN Outcome.value
       ELSE /\ "amount" \in DOMAIN Outcome.value
            /\ Outcome.value["amount"] = FloatHundredths(ReplaceChar(expected[1], ",", "."))

(* C24: in every field map _parse_text_to_fields returns, vat and      *)
(* vat_rate are both present or both absent, and they are present only *)
(* when one mwst pattern supplies the percentage and the amount.       *)
C24_VatAndRateTogether ==
  (Called("_parse_text_to_fields") /\ Returned(Outcome)) =>
    /\ ("vat" \in DOMAIN Outcome.value) <=> ("vat_rate" \in DOMAIN Outcome.value)
    /\ ("vat_rate" \in DOMAIN Outcome.value) => VatSearch(Lower(unit.args[1][1])) # None

(* A map with both fields was returned for a text with an mwst line. *)
C24_Witness ==
  /\ Called("_parse_text_to_fields") /\ Returned(Outcome)
  /\ {"vat", "vat_rate"} \subseteq DOMAIN Outcome.value
  /\ Contains(Lower(unit.args[1][1]), mwst)

(* The float() calls that come before the date step raise nothing. *)
NumbersConvert(lower) ==
  /\ ExtractAmount(lower) # None => Returned(ExtractAmount(lower)[1])
  /\ ExtractVat(lower) # None =>
       Returned(ExtractVat(lower)[1][1]) /\ Returned(ExtractVat(lower)[1][2])

(* The token parsed as DD.MM.YYYY, as DD/MM/YYYY and as DD.MM.YY. *)
DateTries(token) ==
  <<Strptime(token, ".", 4), Strptime(token, "/", 4), Strptime(token, ".", 2)>>

(* C25: where the date step is reached (the number conversions before it *)
(* succeed) and a token follows datum, date is the first of DD.MM.YYYY,  *)
(* DD/MM/YYYY, DD.MM.YY that parses the token; when none parses (as for  *)
(* DD/MM/YY, mixed separators or an impossible calendar date) no         *)
(* exception is raised, date is left unset and the other fields are      *)
(* extracted all the same.                                               *)
C25_DateFormatsInOrder ==
  Called("_parse_text_to_fields") =>
    LET ocr_text == unit.args[1][1]
        token == DateSearch(Lower(ocr_text))
        parses == {k \in 1..3 : DateTries(token[1])[k] # None}
    IN (token # None /\ NumbersConvert(Lower(ocr_text))) =>
         /\ Returned(Outcome)
         /\ IF parses = {} THEN "date" \notin DOMAIN Outcome.value
            ELSE /\ "date" \in DOMAIN Outcome.value
                 /\ Outcome.value["date"] = DateTries(token[1])[Min(parses)][1]
         /\ {"merchant", "currency"} \subseteq DOMAIN Outcome.value
         /\ ExtractAmount(Lower(ocr_text)) # None => "amount" \in DOMAIN Outcome.value
         /\ InvoiceSearch(Lower(ocr_text)) # None => "invoice_number" \in DOMAIN Outcome.value
         /\ ExtractPayment(Lower(ocr_text)) # None => "payment_method" \in DOMAIN Outcome.value

(* A token in none of the formats followed datum: the map came back *)
(* without a date and with an amount.                                *)
C25_Witness ==
  /\ Called("_parse_text_to_fields") /\ Returned(Outcome)
  /\ DateSearch(Lower(unit.args[1][1])) # None
  /\ "date" \notin DOMAIN Outcome.value
  /\ "amount" \in DOMAIN Outcome.value

(* The payment keywords in the order of the list. *)
PaymentKeywords ==
  <<<<"e", "c", "-", "k", "a", "r", "t", "e">>, <<"k", "r", "e", "d", "i", "t", "k", "a", "r", "t", "e">>, <<"b", "a", "r", "g", "e", "l", "d">>, <<"ü", "b", "e", "r", "w", "e", "i", "s", "u", "n", "g">>, <<"p", "a", "y", "p", "a", "l">>>>

(* The normalized tokens, keyword by keyword. *)
PaymentTokens ==
  <<<<"e", "c", "_", "k", "a", "r", "t", "e">>, <<"k", "r", "e", "d", "i", "t", "k", "a", "r", "t", "e">>, <<"b", "a", "r", "g", "e", "l", "d">>, <<"u", "e", "b", "e", "r", "w", "e", "i", "s", "u", "n", "g">>, <<"p", "a", "y", "p", "a", "l">>>>

(* The token stands for keyword k, in the spelling of the list, with *)
(* underscores for hyphens, or normalized.                            *)
NamesKeyword(token, k) ==
  token \in {PaymentKeywords[k], ReplaceChar(PaymentKeywords[k], "-", "_"), PaymentTokens[k]}

(* C26: payment_method of a returned map stands for the earliest keyword *)
(* of the list ec-karte, kreditkarte, bargeld, überweisung, paypal that  *)
(* occurs anywhere in the lowered text, wherever the keywords stand in   *)
(* the text, and is absent exactly when none occurs.                     *)
C26_PaymentByListOrder ==
  (Called("_parse_text_to_fields") /\ Returned(Outcome)) =>
    LET lower == Lower(unit.args[1][1])
        occurs == {k \in 1..Len(PaymentKeywords) : Contains(lower, PaymentKeywords[k])}
    IN /\ ("payment_method" \in DOMAIN Outcome.value) <=> (occurs # {})
       /\ occurs # {} => NamesKeyword(Outcome.value["payment_method"], Min(occurs))

(* paypal stands in the text before bargeld, and bargeld was returned. *)
C26_Witness ==
  /\ Called("_parse_text_to_fields") /\ Returned(Outcome)
  /\ unit.args[1][1] = <<"P", "a", "y", "P", "a", "l", "\n", "B", "a", "r", "g", "e", "l", "d", "\n">>
  /\ Outcome.value["payment_method"] = <<"b", "a", "r", "g", "e", "l", "d">>

(* C27: payment_method, when present, is one of the normalized tokens *)
(* ec_karte, kreditkarte, bargeld, ueberweisung, paypal; a text with  *)
(* überweisung yields ueberweisung.                                   *)
C27_PaymentTokenNormalized ==
  (/\ Called("_parse_text_to_fields") /\ Returned(Outcome)
   /\ "payment_method" \in DOMAIN Outcome.value)
    => \E k \in 1..Len(PaymentTokens) : Outcome.value["payment_method"] = PaymentTokens[k]

MaxUsers == 3

(* The ids the requests name as users. *)
UserIds == 1..MaxUsers

(* UserCreate bodies: the role and the controller_id given. *)
UserCreates == [role : UserRole, controller_id : Optional({2})]

(* UserUpdate bodies as model_dump(exclude_unset=True) returns them: *)
(* the fields the request sets.                                      *)
UserUpdates ==
  {[k \in {"role"} |-> r] : r \in UserRole}
    \cup {[k \in {"controller_id"} |-> c] : c \in Optional({2})}

(* The id of the next row. *)
NextUserId(d) == IF DOMAIN d.users = {} THEN 1 ELSE Max(DOMAIN d.users) + 1

(* crud_user.create: the row of obj_in, added and committed. *)
crud_user_create(d, obj_in) ==
  [d EXCEPT !.users = Put(@, NextUserId(d), [id |-> NextUserId(d)] @@ obj_in)]

(* crud_user.update: setattr for every field of update_data. *)
crud_user_update(d, id, update_data) ==
  [d EXCEPT !.users[id] =
     [f \in DOMAIN @ |-> IF f \in DOMAIN update_data THEN update_data[f] ELSE @[f]]]

(* crud_user.remove: the row is deleted; on the flush the session sets the *)
(* foreign keys of the rows related to it (User.employees, User.travels)   *)
(* to NULL, as neither relationship cascades the delete.                   *)
crud_user_remove(d, id) ==
  IF id \notin DOMAIN d.users THEN d
  ELSE [d EXCEPT
          !.users = [u \in DOMAIN @ \ {id} |->
                       IF @[u].controller_id = Some(id)
                       THEN [@[u] EXCEPT !.controller_id = None] ELSE @[u]],
          !.travels = [t \in DOMAIN @ |->
                         IF @[t].employee_id = Some(id)
                         THEN [@[t] EXCEPT !.employee_id = None] ELSE @[t]]]

(* UPDATE users SET controller_id = NULL WHERE controller_id = :controller_id *)
UnassignEmployeesOf(d, controller_id) ==
  [d EXCEPT !.users = [u \in DOMAIN @ |->
                         IF @[u].controller_id = Some(controller_id)
                         THEN [@[u] EXCEPT !.controller_id = None] ELSE @[u]]]

(* POST / of api/v1/users.py: create_user (the emails differ). *)
CreateUser ==
  /\ NextUserId(db) <= MaxUsers
  /\ \E user \in Senders, user_in \in UserCreates :
       IF get_current_user(user).role # "admin"
       THEN /\ unit' = Request("create_user", <<user, user_in>>, AdminRequired)
            /\ db' = db
       ELSE /\ db' = crud_user_create(db, user_in)
            /\ unit' = Request("create_user", <<user, user_in>>,
                               Return(db'.users[NextUserId(db)]))
  /\ UNCHANGED <<task, receipt_parser>>

(* PUT /{user_id} of api/v1/users.py: update_user. *)
UpdateUser ==
  \E user \in Senders, user_id \in UserIds, user_in \in UserUpdates :
    LET args == <<user, user_id, user_in>>
    IN /\ IF get_current_user(user).role # "admin"
          THEN /\ unit' = Request("update_user", args, AdminRequired)
               /\ db' = db
          ELSE IF crud_user_get(db, user_id) = None
          THEN /\ unit' = Request("update_user", args, HTTPException(404, "User not found"))
               /\ db' = db
          ELSE /\ db' = crud_user_update(db, user_id, user_in)
               /\ unit' = Request("update_user", args, Return(db'.users[user_id]))
       /\ UNCHANGED <<task, receipt_parser>>

(* PUT /{employee_id}/assign-controller/{controller_id} of api/v1/users.py. *)
AssignControllerToEmployee ==
  \E user \in Senders, employee_id \in UserIds, controller_id \in UserIds :
    LET args == <<user, employee_id, controller_id>>
        r == assign_controller(db, employee_id, Some(controller_id))
    IN /\ IF get_current_user(user).role # "admin"
          THEN /\ unit' = Request("assign_controller_to_employee", args, AdminRequired)
               /\ db' = db
          ELSE /\ db' = r.db
               /\ unit' = Request("assign_controller_to_employee", args,
                                  IF Raised(r.out) THEN HTTPException(404, r.out.msg)
                                  ELSE r.out)
       /\ UNCHANGED <<task, receipt_parser>>

(* DELETE /users/{user_id} of api/v1/admin.py: delete_user. *)
AdminDeleteUser ==
  \E user \in Senders, user_id \in UserIds :
    LET args == <<user, user_id>>
        found == crud_user_get(db, user_id)
    IN /\ IF get_current_user(user).role # "admin"
          THEN /\ unit' = Request("admin.delete_user", args, AdminRequired)
               /\ db' = db
          ELSE IF found = None
          THEN /\ unit' = Request("admin.delete_user", args, HTTPException(404, "User not found"))
               /\ db' = db
          ELSE /\ db' = crud_user_remove(IF found[1].role = "controller"
                                         THEN UnassignEmployeesOf(db, user_id) ELSE db,
                                         user_id)
               /\ unit' = Request("admin.delete_user", args, Return([message |-> "deleted"]))
       /\ UNCHANGED <<task, receipt_parser>>

(* DELETE /{user_id} of api/v1/users.py: delete_user. *)
DeleteUser ==
  \E user \in Senders, user_id \in UserIds :
    LET args == <<user, user_id>>
        found == crud_user_get(db, user_id)
    IN /\ IF get_current_user(user).role # "admin"
          THEN /\ unit' = Request("users.delete_user", args, AdminRequired)
               /\ db' = db
          ELSE IF found = None
          THEN /\ unit' = Request("users.delete_user", args, HTTPException(404, "User not found"))
               /\ db' = db
          ELSE /\ db' = crud_user_remove(db, user_id)
               /\ unit' = Request("users.delete_user", args, Return(found[1]))
       /\ UNCHANGED <<task, receipt_parser>>

InitUsers ==
  /\ task = EmptyDict
  /\ unit = NoUnit
  /\ receipt_parser = ReceiptParsingService
  /\ db = [users |-> [id \in {1, 2, 3} |-> Users[id]], travels |-> EmptyDict, receipts |-> <<>>]

NextUsers ==
  \/ CreateUser
  \/ UpdateUser
  \/ AssignControllerToEmployee
  \/ UnassignEmployee
  \/ AdminDeleteUser
  \/ DeleteUser

SpecUsers == InitUsers /\ [][NextUsers]_vars

(* Every user with a controller is an employee, and the controller is a *)
(* user of the table with role controller.                              *)
ControllerLinksValid ==
  \A id \in DOMAIN db.users :
    db.users[id].controller_id # None =>
      /\ db.users[id].role = "employee"
      /\ db.users[id].controller_id[1] \in DOMAIN db.users
      /\ db.users[db.users[id].controller_id[1]].role = "controller"

(* The controller_id of every user of the table. *)
ControllerIds(d) == [id \in DOMAIN d.users |-> d.users[id].controller_id]

(* C30: after any sequence of user-management operations every user with *)
(* a non-null controller_id has role employee and the user it names      *)
(* exists and has role controller; an assign_controller that fails       *)
(* leaves every controller_id unchanged, and deleting a controller       *)
(* leaves no employee assigned to it.                                    *)
C30_ControllerLinksValid ==
  /\ []ControllerLinksValid
  /\ [][(unit'.fn = "assign_controller_to_employee" /\ Raised(unit'.out[1]))
          => ControllerIds(db') = ControllerIds(db)]_vars
  /\ [][(unit'.fn \in {"admin.delete_user", "users.delete_user"} /\ Returned(unit'.out[1]))
          => \A id \in DOMAIN db'.users :
               db'.users[id].controller_id # Some(unit'.args[2])]_vars

====
